---- MODULE Spec2Model ----
(***************************************************************************)
(* The iterative pattern-processing pipeline of                            *)
(* src/cloud-run-ocr/iterative_processor.py (class PatternProcessor).      *)
(*                                                                         *)
(* One run of process_pattern_iteratively is a coroutine that suspends at  *)
(* each `await self._call_gemini_api(prompt)`.  The Text Interpreter is    *)
(* the environment: its reply to each call is an input of the action that  *)
(* resumes the coroutine.                                                  *)
(*                                                                         *)
(* Python values are modelled as tagged records:                           *)
(*   [j |-> "null"]                      None / JSON null                  *)
(*   [j |-> "num",  v |-> n]             an int                            *)
(*   [j |-> "bool", v |-> 0 or 1]        False / True (bool is an int)     *)
(*   [j |-> "str",  s |-> "..."]         a str                             *)
(*   [j |-> "list", items |-> <<..>>]    a list                            *)
(*   [j |-> "obj",  keys |-> <<..>>, vals |-> <<..>>]                      *)
(*                                        a dict, in insertion order       *)
(* A Python dict with a fixed literal key set that the code builds itself  *)
(* (a pass result, the metadata, an interpreter response) is a TLA+ record *)
(* whose DOMAIN is the set of keys present.                                *)
(*                                                                         *)
(* A call that may raise returns an outcome: Ok(v) or Raise(e).            *)
(*                                                                         *)
(* The module also carries a second run of process_pattern_iteratively on  *)
(* the same PatternProcessor (variable other, SpecTwoRuns) and the pattern *)
(* generator parse_fairy_kiss_pattern of src/patterns/generateFairyKiss.py *)
(* (variable fk, SpecFairyKiss), one action per record it appends; and    *)
(* the handler process_ocr of src/cloud-run-ocr/main.py, the route        *)
(* POST /process-ocr (variable ocr, SpecOcr), one action per stage.       *)
(***************************************************************************)
EXTENDS Integers, Sequences, FiniteSets, TLC

VARIABLES
    pc,        \* position of the run: "idle", "pass1", "pass2", "pass3", "done"
    entry,     \* the method the caller invoked: "none" before the call
    context,   \* the run's ProcessingContext
    result,    \* the value returned to the caller (NoResult before the return)
    passlog,   \* the passes executed so far, in order: the reply each got and what it returned
    calls,     \* number of calls of _call_gemini_api made so far
    args,      \* the arguments of the caller's invocation (NoArgs before the call)
    other,     \* a second run of process_pattern_iteratively on the same PatternProcessor
    fk,        \* the locals of parse_fairy_kiss_pattern (src/patterns/generateFairyKiss.py)
    ocr        \* one request to POST /process-ocr: process_ocr of src/cloud-run-ocr/main.py

vars == <<pc, entry, context, result, passlog, calls, args, other, fk, ocr>>

-----------------------------------------------------------------------------
(* Bounds *)

\* Longest steps array the Text Interpreter replies with.
MaxSteps == 3

\* Most entries in a glossary the Text Interpreter replies with.
MaxEntries == 2

-----------------------------------------------------------------------------
(* Python values *)

JNull == [j |-> "null"]
JNum(n) == [j |-> "num", v |-> n]
JBool(b) == [j |-> "bool", v |-> IF b THEN 1 ELSE 0]
JStr(s) == [j |-> "str", s |-> s]
JList(items) == [j |-> "list", items |-> items]
JObj(keys, vals) == [j |-> "obj", keys |-> keys, vals |-> vals]
EmptyList == JList(<<>>)
EmptyDict == JObj(<<>>, <<>>)

Ok(v) == [raised |-> FALSE, val |-> v]
Raise(e) == [raised |-> TRUE, exc |-> e]

TypeError(what) == [type |-> "TypeError", what |-> what]
KeyError(key) == [type |-> "KeyError", key |-> key]
AttributeError(attr) == [type |-> "AttributeError", attr |-> attr]

Range(seq) == {seq[i] : i \in 1..Len(seq)}

\* Index of key k in the key sequence of a dict (0 when absent).
KeyIndex(keys, k) ==
    IF \E i \in 1..Len(keys) : keys[i] = k
    THEN CHOOSE i \in 1..Len(keys) : keys[i] = k
    ELSE 0

\* bool(x)
Truthy(x) ==
    CASE x.j = "null" -> FALSE
      [] x.j = "num"  -> x.v # 0
      [] x.j = "bool" -> x.v # 0
      [] x.j = "str"  -> x.s # ""
      [] x.j = "list" -> Len(x.items) > 0
      [] x.j = "obj"  -> Len(x.keys) > 0

\* a == b : ints and bools compare by numeric value (True == 1), everything
\* else by type and content.
RECURSIVE PyEq(_, _)
PyEq(a, b) ==
    CASE a.j \in {"num", "bool"} /\ b.j \in {"num", "bool"} -> a.v = b.v
      [] a.j = "list" /\ b.j = "list" ->
            /\ Len(a.items) = Len(b.items)
            /\ \A i \in 1..Len(a.items) : PyEq(a.items[i], b.items[i])
      [] a.j = "obj" /\ b.j = "obj" ->
            /\ Range(a.keys) = Range(b.keys)
            /\ \A k \in Range(a.keys) :
                  PyEq(a.vals[KeyIndex(a.keys, k)], b.vals[KeyIndex(b.keys, k)])
      [] a.j = "str" /\ b.j = "str" -> a.s = b.s
      [] a.j = "null" /\ b.j = "null" -> TRUE
      [] OTHER -> FALSE

\* StepFields as it would be if side were required too.
StepFieldsWithSide ==
    <<"step", "startingStitchCount", "endingStitchCount", "instruction", "section", "type", "side">>

\* The field names the parsers look for.
StructureFields == <<"sections", "repeats", "structuralElements", "specialInstructions", "variables">>
GlossaryFields == <<"name", "description", "stitchesUsed", "stitchesCreated">>
StepFields == <<"step", "startingStitchCount", "endingStitchCount", "instruction", "section", "type">>

\* Strings that occur as values in the replies, and which field names each
\* contains as a substring.
AllStructureNames == "sections repeats structuralElements specialInstructions variables"
AllGlossaryNames == "name description stitchesUsed stitchesCreated"
PlaceholderString == "This would contain the actual Gemini API response"

\* main.py line 114: the fields process_ocr requires of a request body, and
\* a string that contains the four names.
required_fields == <<"imageData", "patternName", "authorName", "userId">>
AllRequiredNames == "imageData patternName authorName userId"

\* `sub in s` for two strs.
Substr(sub, s) ==
    \/ sub = s
    \/ s = AllStructureNames /\ sub \in Range(StructureFields)
    \/ s = AllGlossaryNames /\ sub \in Range(GlossaryFields)
    \/ s = AllRequiredNames /\ sub \in Range(required_fields)

\* `key in x` for a str key
PyIn(key, x) ==
    CASE x.j = "obj"  -> Ok(key \in Range(x.keys))
      [] x.j = "list" -> Ok(\E i \in 1..Len(x.items) : PyEq(x.items[i], JStr(key)))
      [] x.j = "str"  -> Ok(Substr(key, x.s))
      [] OTHER        -> Raise(TypeError("argument is not iterable"))

\* x[key] for a str key
PyGetItem(x, key) ==
    CASE x.j = "obj" ->
            IF key \in Range(x.keys) THEN Ok(x.vals[KeyIndex(x.keys, key)])
            ELSE Raise(KeyError(key))
      [] x.j = "list" -> Raise(TypeError("list indices must be integers"))
      [] x.j = "str"  -> Raise(TypeError("string indices must be integers"))
      [] OTHER        -> Raise(TypeError("object is not subscriptable"))

\* x[key] = val for a str key
PySetItem(x, key, val) ==
    CASE x.j = "obj" ->
            IF key \in Range(x.keys)
            THEN Ok(JObj(x.keys, [x.vals EXCEPT ![KeyIndex(x.keys, key)] = val]))
            ELSE Ok(JObj(Append(x.keys, key), Append(x.vals, val)))
      [] x.j = "list" -> Raise(TypeError("list indices must be integers"))
      [] OTHER        -> Raise(TypeError("object does not support item assignment"))

\* The text of a reply: garbage, or the JSON text of a value.
InvalidText == [garbage |-> TRUE]
JsonText(v) == [garbage |-> FALSE, json |-> v]

\* json.loads
json_loads(text) ==
    IF text.garbage THEN Raise([type |-> "JSONDecodeError"]) ELSE Ok(text.json)

-----------------------------------------------------------------------------
(* The parsers *)

Exception(msg) == [type |-> "Exception", msg |-> msg]

\* ParseStructureLoop as it would be without the test `field not in structure`.
RECURSIVE ParseStructureLoopOverwrite(_, _)
ParseStructureLoopOverwrite(structure, i) ==
    IF i > Len(StructureFields) THEN Ok(structure)
    ELSE LET set == PySetItem(structure, StructureFields[i], EmptyList)
         IN  IF set.raised THEN set ELSE ParseStructureLoopOverwrite(set.val, i + 1)

\* Lines 381-383: the loop over required_fields, from the i-th field on.
RECURSIVE ParseStructureLoop(_, _)
ParseStructureLoop(structure, i) ==
    IF i > Len(StructureFields) THEN Ok(structure)
    ELSE LET field == StructureFields[i]
             present == PyIn(field, structure)
         IN  IF present.raised THEN present
             ELSE IF ~present.val
             THEN LET set == PySetItem(structure, field, EmptyList)
                  IN  IF set.raised THEN set ELSE ParseStructureLoop(set.val, i + 1)
             ELSE ParseStructureLoop(structure, i + 1)

_parse_structure_response(response_text) ==
    LET loaded == json_loads(response_text)
    IN  IF loaded.raised
        THEN Raise(Exception("Invalid JSON in structure response"))
        ELSE ParseStructureLoop(loaded.val, 1)

\* isinstance(x, (int, float))
IsNumber(x) == x.j \in {"num", "bool"}

\* Lines 399-401: the loop over required_fields of one glossary entry.
RECURSIVE GlossaryFieldLoop(_, _, _)
GlossaryFieldLoop(abbrev, stitch, i) ==
    IF i > Len(GlossaryFields) THEN Ok(TRUE)
    ELSE LET field == GlossaryFields[i]
             present == PyIn(field, stitch)
         IN  IF present.raised THEN present
             ELSE IF ~present.val
             THEN Raise([type |-> "Exception", msg |-> "Glossary entry missing required field",
                         abbrev |-> abbrev, field |-> field])
             ELSE GlossaryFieldLoop(abbrev, stitch, i + 1)

\* Lines 404-407: the numeric checks of one glossary entry.
GlossaryNumericCheck(abbrev, stitch) ==
    LET used == PyGetItem(stitch, "stitchesUsed")
    IN  IF used.raised THEN used
        ELSE IF ~IsNumber(used.val)
        THEN Raise([type |-> "Exception", msg |-> "Glossary entry has invalid stitchesUsed value",
                    abbrev |-> abbrev])
        ELSE LET created == PyGetItem(stitch, "stitchesCreated")
             IN  IF created.raised THEN created
                 ELSE IF ~IsNumber(created.val)
                 THEN Raise([type |-> "Exception", msg |-> "Glossary entry has invalid stitchesCreated value",
                             abbrev |-> abbrev])
                 ELSE Ok(TRUE)

\* Lines 397-407: the loop over glossary.items(), from the n-th entry on.
RECURSIVE GlossaryEntryLoop(_, _)
GlossaryEntryLoop(glossary, n) ==
    IF n > Len(glossary.keys) THEN Ok(glossary)
    ELSE LET abbrev == glossary.keys[n]
             stitch == glossary.vals[n]
             fields == GlossaryFieldLoop(abbrev, stitch, 1)
         IN  IF fields.raised THEN fields
             ELSE LET numeric == GlossaryNumericCheck(abbrev, stitch)
                  IN  IF numeric.raised THEN numeric
                      ELSE GlossaryEntryLoop(glossary, n + 1)

_parse_glossary_response(response_text) ==
    LET loaded == json_loads(response_text)
    IN  IF loaded.raised
        THEN Raise(Exception("Invalid JSON in glossary response"))
        ELSE IF loaded.val.j # "obj"
        THEN Raise(AttributeError("items"))
        ELSE GlossaryEntryLoop(loaded.val, 1)

\* Lines 426-428: the loop over required_fields of the step at 0-based index i.
RECURSIVE StepFieldLoop(_, _, _)
StepFieldLoop(i, step, f) ==
    IF f > Len(StepFields) THEN Ok(TRUE)
    ELSE LET field == StepFields[f]
             present == PyIn(field, step)
         IN  IF present.raised THEN present
             ELSE IF ~present.val
             THEN Raise([type |-> "Exception", msg |-> "Step missing required field",
                         number |-> i + 1, field |-> field])
             ELSE StepFieldLoop(i, step, f + 1)

\* StepNumberingCheck as it would be if it compared with the 0-based index.
StepNumberingCheckZeroBased(i, step) ==
    LET number == PyGetItem(step, "step")
    IN  IF number.raised THEN number
        ELSE IF ~PyEq(number.val, JNum(i))
        THEN Raise([type |-> "Exception", msg |-> "Step numbering error",
                    expected |-> i, got |-> number.val])
        ELSE Ok(TRUE)

\* Lines 431-432: the numbering check of the step at 0-based index i.
StepNumberingCheck(i, step) ==
    LET number == PyGetItem(step, "step")
    IN  IF number.raised THEN number
        ELSE IF ~PyEq(number.val, JNum(i + 1))
        THEN Raise([type |-> "Exception", msg |-> "Step numbering error",
                    expected |-> i + 1, got |-> number.val])
        ELSE Ok(TRUE)

\* Lines 424-432: the loop over enumerate(steps), from 0-based index i on.
RECURSIVE StepLoop(_, _)
StepLoop(steps, i) ==
    IF i >= Len(steps.items) THEN Ok(steps)
    ELSE LET step == steps.items[i + 1]
             fields == StepFieldLoop(i, step, 1)
         IN  IF fields.raised THEN fields
             ELSE LET numbering == StepNumberingCheck(i, step)
                  IN  IF numbering.raised THEN numbering
                      ELSE StepLoop(steps, i + 1)

_parse_steps_response(response_text) ==
    LET loaded == json_loads(response_text)
    IN  IF loaded.raised
        THEN Raise(Exception("Invalid JSON in steps response"))
        ELSE IF loaded.val.j # "list"
        THEN Raise(Exception("Steps response must be an array"))
        ELSE StepLoop(loaded.val, 0)

\* Lines 450-455: the comparison of the steps at 0-based indices i and i+1.
\* Ok([equal |-> TRUE]) when the counts agree, the error text with it when they differ.
ComparePair(steps, i) ==
    LET current_step == steps.items[i + 1]
        next_step == steps.items[i + 2]
        ending == PyGetItem(current_step, "endingStitchCount")
        starting == PyGetItem(next_step, "startingStitchCount")
        stepA == PyGetItem(current_step, "step")
        stepB == PyGetItem(next_step, "step")
    IN  IF ending.raised THEN ending
        ELSE IF starting.raised THEN starting
        ELSE IF PyEq(ending.val, starting.val) THEN Ok([equal |-> TRUE])
        ELSE IF stepA.raised THEN stepA
        ELSE IF stepB.raised THEN stepB
        ELSE Ok([equal |-> FALSE,
                 error |-> [msg |-> "Stitch count mismatch between steps",
                            stepA |-> stepA.val, stepB |-> stepB.val,
                            ending |-> ending.val, starting |-> starting.val]])

\* ValidateLoop as it would be over range(len(steps) - 2): the last pair is not compared.
RECURSIVE ValidateLoopShort(_, _)
ValidateLoopShort(steps, i) ==
    IF i >= Len(steps.items) - 2 THEN Ok([valid |-> TRUE])
    ELSE LET cmp == ComparePair(steps, i)
         IN  IF cmp.raised THEN cmp
             ELSE IF ~cmp.val.equal THEN Ok([valid |-> FALSE, error |-> cmp.val.error])
             ELSE ValidateLoopShort(steps, i + 1)

\* ValidateLoop as it would be if it scanned on after a mismatch and reported the last one.
RECURSIVE ValidateLoopLast(_, _)
ValidateLoopLast(steps, i) ==
    IF i >= Len(steps.items) - 1 THEN Ok([valid |-> TRUE])
    ELSE LET cmp == ComparePair(steps, i)
             rest == ValidateLoopLast(steps, i + 1)
         IN  IF cmp.raised THEN cmp
             ELSE IF rest.raised THEN rest
             ELSE IF ~rest.val.valid THEN rest
             ELSE IF ~cmp.val.equal THEN Ok([valid |-> FALSE, error |-> cmp.val.error])
             ELSE rest

\* Lines 445-457: the loop over range(len(steps) - 1), from index i on.
RECURSIVE ValidateLoop(_, _)
ValidateLoop(steps, i) ==
    IF i >= Len(steps.items) - 1 THEN Ok([valid |-> TRUE])
    ELSE LET cmp == ComparePair(steps, i)
         IN  IF cmp.raised THEN cmp
             ELSE IF ~cmp.val.equal THEN Ok([valid |-> FALSE, error |-> cmp.val.error])
             ELSE ValidateLoop(steps, i + 1)

\* _validate_stitch_counts as it would be if it asked for at least one step.
ValidateStitchCountsNonEmpty(steps) ==
    IF ~Truthy(steps) THEN Ok([valid |-> FALSE, error |-> [msg |-> "No steps to validate"]])
    ELSE ValidateLoop(steps, 0)

\* steps is None or a list (the type of ProcessingContext.steps).
_validate_stitch_counts(steps) ==
    IF ~Truthy(steps) THEN Ok([valid |-> TRUE])
    ELSE ValidateLoop(steps, 0)

-----------------------------------------------------------------------------
(* The passes *)

\* The except clause of a pass: {"success": False, "error": str(e), "step": step}
Failure(e, step) == [success |-> FALSE, error |-> e, step |-> step]

\* response.get("success")
GetSuccess(response) ==
    IF "success" \in DOMAIN response THEN response.success ELSE FALSE

\* Lines 104-127, 136-159 and 168-191: the three interpreter passes share
\* one body: await the call, return a failed response as it is, parse the
\* text, wrap the parsed data.  `parsed` is the parser's outcome on
\* response["text"] (a KeyError when the key is absent); a response is a
\* record, or [raises |-> e] when the awaited call raised e.
InterpreterPass(response, parsed, step) ==
    IF "raises" \in DOMAIN response THEN Failure(response.raises, step)
    ELSE IF ~GetSuccess(response) THEN response
    ELSE IF "text" \notin DOMAIN response THEN Failure(KeyError("text"), step)
    ELSE IF parsed.raised THEN Failure(parsed.exc, step)
    ELSE [success |-> TRUE, data |-> parsed.val, step |-> step]

pass_1_structure_analysis(ctx, response) ==
    InterpreterPass(response,
        IF "text" \in DOMAIN response THEN _parse_structure_response(response.text)
        ELSE Raise(KeyError("text")),
        "structure_analysis")

pass_2_glossary_building(ctx, response) ==
    InterpreterPass(response,
        IF "text" \in DOMAIN response THEN _parse_glossary_response(response.text)
        ELSE Raise(KeyError("text")),
        "glossary_building")

pass_3_section_processing(ctx, response) ==
    InterpreterPass(response,
        IF "text" \in DOMAIN response THEN _parse_steps_response(response.text)
        ELSE Raise(KeyError("text")),
        "section_processing")

\* len(x) for a list
PyLen(x) == Len(x.items)

\* AssembleDocument as it would be if maxSteps were the 0-based index of the last record.
AssembleDocumentLastIndex(ctx) ==
    [metadata |-> PySetItem(ctx.metadata, "maxSteps",
                            JNum(IF Truthy(ctx.steps) THEN PyLen(ctx.steps) - 1 ELSE 0)).val,
     glossary |-> IF Truthy(ctx.glossary) THEN ctx.glossary ELSE EmptyDict,
     steps |-> IF Truthy(ctx.steps) THEN ctx.steps ELSE EmptyList]

\* AssembleDocument as it would be if the metadata were built anew with maxSteps alone.
AssembleDocumentFreshMetadata(ctx) ==
    [metadata |-> JObj(<<"maxSteps">>, <<JNum(IF Truthy(ctx.steps) THEN PyLen(ctx.steps) ELSE 0)>>),
     glossary |-> IF Truthy(ctx.glossary) THEN ctx.glossary ELSE EmptyDict,
     steps |-> IF Truthy(ctx.steps) THEN ctx.steps ELSE EmptyList]

\* Lines 211-218: the assembled document.  {**context.metadata, "maxSteps": n}
\* copies the metadata and sets the key maxSteps in the copy.
AssembleDocument(ctx) ==
    [metadata |-> PySetItem(ctx.metadata, "maxSteps",
                            JNum(IF Truthy(ctx.steps) THEN PyLen(ctx.steps) ELSE 0)).val,
     glossary |-> IF Truthy(ctx.glossary) THEN ctx.glossary ELSE EmptyDict,
     steps |-> IF Truthy(ctx.steps) THEN ctx.steps ELSE EmptyList]

pass_4_validation_assembly(ctx) ==
    LET validation_result == _validate_stitch_counts(ctx.steps)
    IN  IF validation_result.raised THEN Failure(validation_result.exc, "validation_assembly")
        ELSE IF ~validation_result.val.valid
        THEN [success |-> FALSE,
              error |-> [msg |-> "Validation failed", detail |-> validation_result.val.error],
              step |-> "validation"]
        ELSE [success |-> TRUE, data |-> AssembleDocument(ctx), step |-> "validation_assembly"]

-----------------------------------------------------------------------------
(* The caller's inputs and the Text Interpreter's replies *)

PatternTexts == {"dummy_text"}
PatternNames == {"Fairy Kiss", "Shawl"}
AuthorNames == {"Alina Appasova"}

\* The dict a failing interpreter call reports, and the exception a failing call raises.
InterpreterError == [type |-> "InterpreterError", msg |-> "quota exceeded"]
ConnectionError == [type |-> "ConnectionError"]

\* Replies that carry no text: a reported failure, a reply without the
\* success key, a success without the text key, a call that raises.
FailedResponses ==
    { [success |-> FALSE, error |-> InterpreterError],
      [error |-> InterpreterError],
      [success |-> TRUE],
      [raises |-> ConnectionError] }

Responses(texts) == {[success |-> TRUE, text |-> t] : t \in texts} \cup FailedResponses

\* StubResponse as it would be if the stub replied with the empty JSON object.
StubResponseEmptyObject == [success |-> TRUE, text |-> JsonText(EmptyDict)]

\* Lines 369-372: the reply of the stub.
PlaceholderObject == JObj(<<"placeholder">>, <<JStr(PlaceholderString)>>)
StubResponse == [success |-> TRUE, text |-> JsonText(PlaceholderObject)]

\* --- structure replies ---

\* The value a structure reply gives a field it carries: one value kind per field.
GivenValue(field) ==
    CASE field = "sections" -> JList(<<JObj(<<"name">>, <<JStr("setup")>>)>>)
      [] field = "repeats" -> EmptyList
      [] field = "structuralElements" -> JNum(3)
      [] field = "specialInstructions" -> JNull
      [] field = "variables" -> JStr("k to end")
      [] OTHER -> JStr(PlaceholderString)

\* The JSON object that carries exactly the keys of P, in the order of `order`.
ObjectWith(order, P) ==
    LET keys == SelectSeq(order, LAMBDA k : k \in P)
    IN  JObj(keys, [i \in 1..Len(keys) |-> GivenValue(keys[i])])

StructureObjects ==
    {ObjectWith(StructureFields, P) : P \in SUBSET Range(StructureFields)} \cup {PlaceholderObject}

NamesList(names) == JList([i \in 1..Len(names) |-> JStr(names[i])])

\* JSON that is not an object.
StructureNonObjects ==
    { JNum(5), JNull, EmptyList, JStr("sections"),
      NamesList(StructureFields), JStr(AllStructureNames) }

StructureTexts == {InvalidText} \cup {JsonText(v) : v \in StructureObjects \cup StructureNonObjects}

BasicStructureTexts ==
    { InvalidText, JsonText(PlaceholderObject),
      JsonText(ObjectWith(StructureFields, {"sections", "repeats"})) }

\* --- glossary replies ---

AbbrevNames == <<"k", "kfb", "k2tog", "yo">>

\* The glossary entry that carries exactly the fields of P, with the given counts.
EntryOf(P, used, created) ==
    LET keys == SelectSeq(GlossaryFields, LAMBDA k : k \in P)
    IN  JObj(keys, [i \in 1..Len(keys) |->
                      CASE keys[i] = "name" -> JStr("Knit")
                        [] keys[i] = "description" -> JStr("A standard knit stitch.")
                        [] keys[i] = "stitchesUsed" -> used
                        [] keys[i] = "stitchesCreated" -> created])

AllGlossaryFields == Range(GlossaryFields)

GlossaryEntries ==
    { EntryOf(AllGlossaryFields, JNum(1), JNum(1)),         \* k
      EntryOf(AllGlossaryFields, JNum(1), JNum(2)),         \* kfb
      EntryOf(AllGlossaryFields, JStr("1"), JNum(1)),       \* counts that are not numbers
      EntryOf(AllGlossaryFields, JNum(1), JNull),
      EntryOf(AllGlossaryFields, JBool(TRUE), JNum(1)),     \* a JSON true
      EntryOf(AllGlossaryFields, JNum(-1), JNum(1)),        \* negative counts
      EntryOf(AllGlossaryFields, JNum(1), JNum(-2)),
      JNum(5), NamesList(GlossaryFields),                   \* entries that are not objects
      JStr(AllGlossaryNames), JStr(PlaceholderString) }
    \cup {EntryOf(AllGlossaryFields \ {f}, JNum(1), JNum(1)) : f \in AllGlossaryFields}

GlossaryObjects ==
    UNION { {JObj(SubSeq(AbbrevNames, 1, n), vals) : vals \in [1..n -> GlossaryEntries]}
            : n \in 0..MaxEntries }

GlossaryTexts ==
    {InvalidText} \cup {JsonText(v) : v \in GlossaryObjects \cup {EmptyList, JNum(5), JNull}}

ExampleGlossary ==
    JObj(<<"k", "kfb">>, <<EntryOf(AllGlossaryFields, JNum(1), JNum(1)),
                           EntryOf(AllGlossaryFields, JNum(1), JNum(2))>>)

BasicGlossaryTexts == {InvalidText, JsonText(ExampleGlossary)}

\* --- steps replies ---

StepRecord(number, starting, ending) ==
    JObj(<<"step", "startingStitchCount", "endingStitchCount", "instruction", "section", "side", "type">>,
         <<number, starting, ending, JStr("k to end"), JStr("setup"), JStr("RS"), JStr("regular")>>)

\* A cast-on record as src/patterns/generateFairyKiss.py line 38 emits it: no stitch counts.
SpecialInstruction(number) ==
    JObj(<<"step", "description", "section", "type">>,
         <<number, JStr("With MC, cast on 100 sts."), JStr("Setup"), JStr("specialInstruction")>>)

CountValues == {JNum(1), JNum(2)}

\* The kinds of element a steps reply may carry: records numbered from 0
\* (base 0) or from 1 (base 1) with every pair of counts, and malformed elements.
StepKinds ==
    {[kind |-> "record", base |-> b, starting |-> s, ending |-> e] :
        b \in {0, 1}, s \in CountValues, e \in CountValues}
    \cup {[kind |-> "true"], [kind |-> "special"], [kind |-> "number"], [kind |-> "names"]}

\* The element of kind k at 0-based index i.
StepElementAt(i, k) ==
    CASE k.kind = "record"  -> StepRecord(JNum(i + k.base), k.starting, k.ending)
      [] k.kind = "true"    -> StepRecord(JBool(TRUE), JNum(1), JBool(TRUE))  \* JSON true where 1 is meant
      [] k.kind = "special" -> SpecialInstruction(JNum(i + 1))
      [] k.kind = "number"  -> JNum(5)                                        \* not an object
      [] k.kind = "names"   -> NamesList(StepFields)                          \* not an object

StepListOf(kinds) == JList([p \in 1..Len(kinds) |-> StepElementAt(p - 1, kinds[p])])

\* Steps replies that are not arrays.
OtherStepsTexts == {InvalidText, JsonText(EmptyDict), JsonText(JNull)}

BasicStepsTexts ==
    { InvalidText,
      JsonText(JList(<<StepRecord(JNum(1), JNum(1), JNum(2)), StepRecord(JNum(2), JNum(2), JNum(2))>>)),
      JsonText(JList(<<StepRecord(JNum(1), JNum(1), JNum(2)), StepRecord(JNum(2), JNum(1), JNum(2))>>)) }

\* --- contexts a caller hands to pass 4 directly ---

Metadata(pattern_name, author_name) ==
    JObj(<<"name", "author", "craft">>, <<JStr(pattern_name), JStr(author_name), JStr("knitting")>>)

NewContext(pattern_text, pattern_name, author_name) ==
    [original_text |-> pattern_text,
     metadata |-> Metadata(pattern_name, author_name),
     structure |-> JNull, glossary |-> JNull, steps |-> JNull, user_context |-> JNull]

DirectStepElements ==
    { StepRecord(JNum(1), JNum(1), JNum(1)),
      StepRecord(JNum(2), JNum(1), JNum(2)),
      SpecialInstruction(JNum(1)),
      JObj(<<"startingStitchCount", "endingStitchCount">>, <<JNum(2), JNum(2)>>) }

DirectStepLists ==
    UNION { {JList(items) : items \in [1..n -> DirectStepElements]} : n \in 0..MaxSteps }

DirectContexts ==
    { [NewContext("dummy_text", "Fairy Kiss", "Alina Appasova")
         EXCEPT !.glossary = g, !.steps = st]
      : g \in {JNull, ExampleGlossary}, st \in DirectStepLists \cup {JNull} }

-----------------------------------------------------------------------------
(* The run *)

NoContext == [absent |-> TRUE]
NoResult == [pending |-> TRUE]
NoResponse == [nocall |-> TRUE]
NoArgs == [none |-> TRUE]

\* The second run and the pattern generator before they are called.
OtherIdle == [pc |-> "idle"]
FairyKissIdle == [pc |-> "idle"]

\* The handler before a request arrives: no stage has run, nothing is
\* written to Firestore, nothing is answered.
OcrIdle ==
    [pc |-> "idle", stages |-> <<>>, writes |-> <<>>, response |-> [status |-> 0], failed |-> "none"]

LogEntry(pass, response, ret) == [pass |-> pass, response |-> response, ret |-> ret]

Init ==
    /\ pc = "idle"
    /\ entry = "none"
    /\ context = NoContext
    /\ result = NoResult
    /\ passlog = <<>>
    /\ calls = 0
    /\ args = NoArgs
    /\ other = OtherIdle
    /\ fk = FairyKissIdle
    /\ ocr = OcrIdle

\* Lines 47-58 and 73, 105-107: the caller invokes process_pattern_iteratively;
\* the context is built and pass 1 sends its prompt.
Start(pattern_text, pattern_name, author_name) ==
    /\ pc = "idle"
    /\ entry' = "process_pattern_iteratively"
    /\ context' = NewContext(pattern_text, pattern_name, author_name)
    /\ pc' = "pass1"
    /\ calls' = calls + 1
    /\ args' = [pattern_text |-> pattern_text, pattern_name |-> pattern_name, author_name |-> author_name]
    /\ UNCHANGED <<result, passlog, other, fk, ocr>>

\* Lines 61-67: what process_pattern_iteratively returns when the pipeline raised e.
InitializationFailure(e) == Failure(e, "initialization")

\* Lines 107-127 and 73-80: the interpreter replies to pass 1; pass 1 returns;
\* the pipeline stops or stores the structure and pass 2 sends its prompt.
Pass1(response) ==
    /\ pc = "pass1"
    /\ LET structure_result == pass_1_structure_analysis(context, response)
       IN  /\ passlog' = Append(passlog, LogEntry("pass_1_structure_analysis", response, structure_result))
           /\ IF "success" \notin DOMAIN structure_result
              THEN /\ result' = InitializationFailure(KeyError("success"))
                   /\ pc' = "done"
                   /\ UNCHANGED <<context, calls>>
              ELSE IF ~structure_result.success
              THEN /\ result' = structure_result
                   /\ pc' = "done"
                   /\ UNCHANGED <<context, calls>>
              ELSE /\ context' = [context EXCEPT !.structure = structure_result.data]
                   /\ pc' = "pass2"
                   /\ calls' = calls + 1
                   /\ UNCHANGED result
    /\ UNCHANGED <<entry, args, other, fk, ocr>>

\* Pass2 as it would be if the pipeline did not test glossary_result["success"]:
\* a failed pass 2 is followed by pass 3.
Pass2KeepGoing(response) ==
    /\ pc = "pass2"
    /\ LET glossary_result == pass_2_glossary_building(context, response)
       IN  /\ passlog' = Append(passlog, LogEntry("pass_2_glossary_building", response, glossary_result))
           /\ context' = [context EXCEPT !.glossary =
                             IF "data" \in DOMAIN glossary_result THEN glossary_result.data ELSE JNull]
    /\ pc' = "pass3"
    /\ calls' = calls + 1
    /\ UNCHANGED <<entry, result, args, other, fk, ocr>>

\* Lines 139-159 and 80-87: the same for pass 2.
Pass2(response) ==
    /\ pc = "pass2"
    /\ LET glossary_result == pass_2_glossary_building(context, response)
       IN  /\ passlog' = Append(passlog, LogEntry("pass_2_glossary_building", response, glossary_result))
           /\ IF "success" \notin DOMAIN glossary_result
              THEN /\ result' = InitializationFailure(KeyError("success"))
                   /\ pc' = "done"
                   /\ UNCHANGED <<context, calls>>
              ELSE IF ~glossary_result.success
              THEN /\ result' = glossary_result
                   /\ pc' = "done"
                   /\ UNCHANGED <<context, calls>>
              ELSE /\ context' = [context EXCEPT !.glossary = glossary_result.data]
                   /\ pc' = "pass3"
                   /\ calls' = calls + 1
                   /\ UNCHANGED result
    /\ UNCHANGED <<entry, args, other, fk, ocr>>

\* Pass3 as it would be if the pipeline set context.steps to [] before it
\* tested processing_result["success"].
Pass3StoreFirst(response) ==
    /\ pc = "pass3"
    /\ LET processing_result == pass_3_section_processing(context, response)
           logged == Append(passlog, LogEntry("pass_3_section_processing", response, processing_result))
       IN  IF "success" \notin DOMAIN processing_result
           THEN /\ result' = InitializationFailure(KeyError("success"))
                /\ passlog' = logged
                /\ context' = [context EXCEPT !.steps = EmptyList]
           ELSE IF ~processing_result.success
           THEN /\ result' = processing_result
                /\ passlog' = logged
                /\ context' = [context EXCEPT !.steps = EmptyList]
           ELSE LET ctx == [context EXCEPT !.steps = processing_result.data]
                    final_result == pass_4_validation_assembly(ctx)
                IN  /\ context' = ctx
                    /\ passlog' = Append(logged, LogEntry("pass_4_validation_assembly", NoResponse, final_result))
                    /\ result' = final_result
    /\ pc' = "done"
    /\ UNCHANGED <<entry, calls, args, other, fk, ocr>>

\* Lines 171-191 and 87-95: the interpreter replies to pass 3; pass 3 returns;
\* the pipeline stops, or stores the steps and runs pass 4 (which awaits
\* nothing) and returns its result.
Pass3(response) ==
    /\ pc = "pass3"
    /\ LET processing_result == pass_3_section_processing(context, response)
           logged == Append(passlog, LogEntry("pass_3_section_processing", response, processing_result))
       IN  IF "success" \notin DOMAIN processing_result
           THEN /\ result' = InitializationFailure(KeyError("success"))
                /\ passlog' = logged
                /\ UNCHANGED context
           ELSE IF ~processing_result.success
           THEN /\ result' = processing_result
                /\ passlog' = logged
                /\ UNCHANGED context
           ELSE LET ctx == [context EXCEPT !.steps = processing_result.data]
                    final_result == pass_4_validation_assembly(ctx)
                IN  /\ context' = ctx
                    /\ passlog' = Append(logged, LogEntry("pass_4_validation_assembly", NoResponse, final_result))
                    /\ result' = final_result
    /\ pc' = "done"
    /\ UNCHANGED <<entry, calls, args, other, fk, ocr>>

\* Lines 193-232: a caller invokes pass_4_validation_assembly on a context of its own.
DirectPass4(ctx) ==
    /\ pc = "idle"
    /\ entry' = "pass_4_validation_assembly"
    /\ context' = ctx
    /\ LET final_result == pass_4_validation_assembly(ctx)
       IN  /\ passlog' = <<LogEntry("pass_4_validation_assembly", NoResponse, final_result)>>
           /\ result' = final_result
    /\ pc' = "done"
    /\ args' = [context |-> ctx]
    /\ UNCHANGED <<calls, other, fk, ocr>>

StartRun ==
    \E t \in PatternTexts, n \in PatternNames, a \in AuthorNames : Start(t, n, a)

DirectCall == pc = "idle" /\ \E ctx \in DirectContexts : DirectPass4(ctx)

StructureReply == pc = "pass1" /\ \E r \in Responses(BasicStructureTexts) : Pass1(r)
GlossaryReply == pc = "pass2" /\ \E r \in Responses(BasicGlossaryTexts) : Pass2(r)
StepsReply == pc = "pass3" /\ \E r \in Responses(BasicStepsTexts) : Pass3(r)

AnyStructureReply == pc = "pass1" /\ \E r \in Responses(StructureTexts) : Pass1(r)
AnyGlossaryReply == pc = "pass2" /\ \E r \in Responses(GlossaryTexts) : Pass2(r)
AnyStepsReply ==
    /\ pc = "pass3"
    /\ \/ \E r \in Responses(OtherStepsTexts) : Pass3(r)
       \/ \E n \in 0..MaxSteps : \E kinds \in [1..n -> StepKinds] :
             Pass3([success |-> TRUE, text |-> JsonText(StepListOf(kinds))])

\* The pipeline with every steps reply, and direct calls of pass 4.
Next == StartRun \/ StructureReply \/ GlossaryReply \/ AnyStepsReply \/ DirectCall
Spec == Init /\ [][Next]_vars

\* The pipeline with every structure reply.
NextStructure == StartRun \/ AnyStructureReply \/ GlossaryReply \/ StepsReply
SpecStructure == Init /\ [][NextStructure]_vars

\* The pipeline with every glossary reply.
NextGlossary == StartRun \/ StructureReply \/ AnyGlossaryReply \/ StepsReply
SpecGlossary == Init /\ [][NextGlossary]_vars

-----------------------------------------------------------------------------
(* A second run on the same PatternProcessor *)

\* A run of process_pattern_iteratively as a value: its position, its
\* arguments, its local ProcessingContext, the replies it has received,
\* what it returned, and (began) where the first run stood when it was called.  The PatternProcessor itself holds gemini_api_key only
\* (line 30), which no run assigns.

\* Lines 47-58: the run after the call, suspended at the interpreter call of pass 1.
StartedRun(a) ==
    [pc |-> "pass1", args |-> a,
     context |-> NewContext(a.pattern_text, a.pattern_name, a.author_name),
     replies |-> <<>>, result |-> NoResult, began |-> "idle"]

\* Lines 69-95 and 61-67: the run resumed with the reply to the interpreter call it awaits.
Resume(run, response) ==
    LET ret == CASE run.pc = "pass1" -> pass_1_structure_analysis(run.context, response)
                 [] run.pc = "pass2" -> pass_2_glossary_building(run.context, response)
                 [] run.pc = "pass3" -> pass_3_section_processing(run.context, response)
        got == [run EXCEPT !.replies = Append(run.replies, response)]
    IN  IF "success" \notin DOMAIN ret
        THEN [got EXCEPT !.pc = "done", !.result = InitializationFailure(KeyError("success"))]
        ELSE IF ~ret.success
        THEN [got EXCEPT !.pc = "done", !.result = ret]
        ELSE CASE run.pc = "pass1" -> [got EXCEPT !.pc = "pass2", !.context.structure = ret.data]
               [] run.pc = "pass2" -> [got EXCEPT !.pc = "pass3", !.context.glossary = ret.data]
               [] run.pc = "pass3" ->
                     LET ctx == [run.context EXCEPT !.steps = ret.data]
                     IN  [got EXCEPT !.pc = "done", !.context = ctx,
                                     !.result = pass_4_validation_assembly(ctx)]

\* OtherStart as it would be if the ProcessingContext were kept on the
\* PatternProcessor (self.context) instead of in a local of the run.
OtherStartSharedContext(pattern_text, pattern_name, author_name) ==
    /\ other.pc = "idle"
    /\ LET a == [pattern_text |-> pattern_text, pattern_name |-> pattern_name, author_name |-> author_name]
       IN  other' = [StartedRun(a) EXCEPT !.began = pc]
    /\ context' = IF pc \in {"pass1", "pass2", "pass3"}
                  THEN NewContext(pattern_text, pattern_name, author_name)
                  ELSE context
    /\ UNCHANGED <<pc, entry, result, passlog, calls, args, fk, ocr>>

\* Lines 47-58: a second caller invokes process_pattern_iteratively, at any
\* point of the first run (`began` records that point).
OtherStart(pattern_text, pattern_name, author_name) ==
    /\ other.pc = "idle"
    /\ LET a == [pattern_text |-> pattern_text, pattern_name |-> pattern_name, author_name |-> author_name]
       IN  other' = [StartedRun(a) EXCEPT !.began = pc]
    /\ UNCHANGED <<pc, entry, context, result, passlog, calls, args, fk, ocr>>

\* The interpreter replies to the call the second run awaits.
OtherReply(response) ==
    /\ other' = Resume(other, response)
    /\ UNCHANGED <<pc, entry, context, result, passlog, calls, args, fk, ocr>>

OtherStartRun ==
    \E t \in PatternTexts, n \in PatternNames, a \in AuthorNames : OtherStart(t, n, a)

OtherStructureReply == other.pc = "pass1" /\ \E r \in Responses(BasicStructureTexts) : OtherReply(r)
OtherGlossaryReply == other.pc = "pass2" /\ \E r \in Responses(BasicGlossaryTexts) : OtherReply(r)
OtherStepsReply == other.pc = "pass3" /\ \E r \in Responses(BasicStepsTexts) : OtherReply(r)

\* Two runs, interleaved at their interpreter calls in every order.
NextTwoRuns ==
    \/ StartRun \/ StructureReply \/ GlossaryReply \/ StepsReply
    \/ OtherStartRun \/ OtherStructureReply \/ OtherGlossaryReply \/ OtherStepsReply
SpecTwoRuns == Init /\ [][NextTwoRuns]_vars

-----------------------------------------------------------------------------
(* Replies that carry stitch arithmetic *)

\* The glossary of the prompt's examples (lines 302-310): k 1/1, kfb 1/2, yo 0/1.
GlossaryWithYarnOver ==
    JObj(<<"k", "kfb", "yo">>, <<EntryOf(AllGlossaryFields, JNum(1), JNum(1)),
                                 EntryOf(AllGlossaryFields, JNum(1), JNum(2)),
                                 EntryOf(AllGlossaryFields, JNum(0), JNum(1))>>)

ArithmeticGlossaryTexts == {JsonText(ExampleGlossary), JsonText(GlossaryWithYarnOver)}

\* The instructions of the rows: two of literal tokens only, one with the
\* placeholder "to end".
Instructions == {"k1, kfb, k1", "k1, yo, k1", "k to end"}

\* The stitch counts a row starts and ends with.
RowCounts == {JNum(3), JNum(4)}

StepRecordWith(number, starting, ending, instruction) ==
    JObj(<<"step", "startingStitchCount", "endingStitchCount", "instruction", "section", "side", "type">>,
         <<number, starting, ending, JStr(instruction), JStr("body"), JStr("RS"), JStr("regular")>>)

RowKinds ==
    {[instruction |-> ins, starting |-> s, ending |-> e] :
        ins \in Instructions, s \in RowCounts, e \in RowCounts}

\* The steps array of the given rows, numbered from 1.
RowListOf(kinds) ==
    JList([p \in 1..Len(kinds) |->
              StepRecordWith(JNum(p), kinds[p].starting, kinds[p].ending, kinds[p].instruction)])

ArithmeticGlossaryReply ==
    pc = "pass2" /\ \E r \in Responses(ArithmeticGlossaryTexts) : Pass2(r)

ArithmeticStepsReply ==
    /\ pc = "pass3"
    /\ \E n \in 0..MaxSteps : \E kinds \in [1..n -> RowKinds] :
          Pass3([success |-> TRUE, text |-> JsonText(RowListOf(kinds))])

\* The pipeline with steps replies of every arithmetic, over two glossaries.
NextArithmetic == StartRun \/ StructureReply \/ ArithmeticGlossaryReply \/ ArithmeticStepsReply
SpecArithmetic == Init /\ [][NextArithmetic]_vars

-----------------------------------------------------------------------------
(* parse_fairy_kiss_pattern (src/patterns/generateFairyKiss.py) *)

\* Line 74: range(112), the repeats of the 4-row sequence.
MainBodyRepeats == 112

\* Line 33: current_stitch_count.
CastOnStitches == 100

\* Lines 10-15.
FairyKissMetadata ==
    JObj(<<"name", "author", "craft", "maxSteps">>,
         <<JStr("Fairy Kiss"), JStr("Alina Appasova"), JStr("knitting"), JNum(0)>>)

Stitch(name, description, used, created) ==
    JObj(GlossaryFields, <<JStr(name), JStr(description), JNum(used), JNum(created)>>)

\* Lines 17-29.
FairyKissGlossary ==
    JObj(<<"k", "p", "sl", "sl knitwise", "kfb", "k2tog tbl", "k3tog", "yo", "wyib", "wyif", "BO">>,
         << Stitch("Knit", "Knit stitch.", 1, 1),
            Stitch("Purl", "Purl stitch.", 1, 1),
            Stitch("Slip", "Slip stitch purlwise.", 1, 1),
            Stitch("Slip Knitwise", "Slip stitch as if to knit.", 1, 1),
            Stitch("Knit Front and Back", "Knit into front and back of the stitch (1 st increase).", 1, 2),
            Stitch("Knit 2 Together Through Back Loop", "Decrease.", 2, 1),
            Stitch("Knit 3 Together", "Knit 3 stitches together (2 st decrease).", 3, 1),
            Stitch("Yarn Over", "Increase (1 st increase).", 0, 1),
            Stitch("With Yarn in Back", "Carry the yarn at the back of the work.", 0, 0),
            Stitch("With Yarn in Front", "Carry the yarn at the front of the work.", 0, 0),
            Stitch("Bind Off", "Bind off stitches.", 1, 0) >>)

\* Lines 41-47.
setup_rows ==
    << [inst |-> "knit to last 2 sts, sl2 wyif.", side |-> "WS"],
       [inst |-> "k2tog tbl, k to last 2 sts, kfb, p1.", side |-> "RS"],
       [inst |-> "sl1 knitwise wyib, k to last 2 sts, sl 2 wyif.", side |-> "WS"],
       [inst |-> "k2tog tbl, k3, [yo, k3tog, yo, k1] to last 3 sts, yo, k2, p1.", side |-> "RS"],
       [inst |-> "sl1 knitwise wyib, k2, p to last 4 sts, k2, sl 2 wyif.", side |-> "WS"] >>

\* Lines 66-71.
main_body_repeat_rows ==
    << [inst |-> "CC Row 1(RS): k2tog tbl, [k3, sl 1 wyib] to last 2 sts, kfb, p1.", side |-> "RS"],
       [inst |-> "Row 2 (WS): sl1 knitwise wyib, k2, sl 1 wyif, [p3, sl 1 wyif] to last 4 sts, k2, sl 2 wyif.", side |-> "WS"],
       [inst |-> "MC Row 3: k2tog tbl, k3, [yo, k3tog, yo, k1] to last 3 sts, yo, k2, p1.", side |-> "RS"],
       [inst |-> "Row 4: sl1 knitwise wyib, k2, p to last 4 sts, k2, sl 2 wyif.", side |-> "WS"] >>

\* Lines 90-93.
ending_rows ==
    << [inst |-> "k2tog tbl, k to last 2 sts, kfb, p1.", side |-> "RS"],
       [inst |-> "sl1 knitwise wyib, k to end.", side |-> "WS"] >>

\* RegularStep as it would be if every row were recorded as a right-side row.
RegularStepRightSide(number, count, row, section) ==
    JObj(<<"step", "startingStitchCount", "endingStitchCount", "instruction", "section", "side", "type">>,
         <<JNum(number), JNum(count), JNum(count), JStr(row.inst), JStr(section), JStr("RS"),
           JStr("regular")>>)

\* Lines 52-60, 76-84 and 96-104: the record of a row.
RegularStep(number, count, row, section) ==
    JObj(<<"step", "startingStitchCount", "endingStitchCount", "instruction", "section", "side", "type">>,
         <<JNum(number), JNum(count), JNum(count), JStr(row.inst), JStr(section), JStr(row.side),
           JStr("regular")>>)

\* Lines 108-113: the bind-off record.
BindOff(number) ==
    JObj(<<"step", "description", "section", "type">>,
         <<JNum(number), JStr("Bind off loosely on the right side."), JStr("Finishing"),
           JStr("specialInstruction")>>)

\* RepeatLabel as it would be with the loop index itself: "Repeat 0" first.
RepeatLabelFromZero(section, i) == section \o " - Repeat " \o ToString(i)

\* Line 81: f"{current_section} - Repeat {i+1}", i the index of range(112).
RepeatLabel(section, i) == section \o " - Repeat " \o ToString(i + 1)

FairyKissUnchanged == UNCHANGED <<pc, entry, context, result, passlog, calls, args, other, ocr>>

\* Lines 125 and 3-39: the script calls the function; the locals are
\* initialized and the cast-on record is appended with the number 0.
FairyKissCall(pattern_text) ==
    /\ fk.pc = "idle"
    /\ fk' = [pc |-> "setup",
              metadata |-> FairyKissMetadata,
              glossary |-> FairyKissGlossary,
              current_step_number |-> 0 + 1,
              current_stitch_count |-> CastOnStitches,
              current_section |-> "Setup",
              output_steps_array |-> <<SpecialInstruction(JNum(0))>>,
              i |-> 0, row |-> 1,
              final_output |-> JNull]
    /\ FairyKissUnchanged

\* Lines 49-61 (and 64 after the last row): one turn of the loop over setup_rows.
FairyKissSetupRow ==
    /\ fk.pc = "setup"
    /\ LET step == RegularStep(fk.current_step_number, fk.current_stitch_count,
                               setup_rows[fk.row], fk.current_section)
           last == fk.row = Len(setup_rows)
       IN  fk' = [fk EXCEPT !.output_steps_array = Append(@, step),
                            !.current_step_number = @ + 1,
                            !.row = IF last THEN 1 ELSE @ + 1,
                            !.pc = IF last THEN "main" ELSE @,
                            !.current_section = IF last THEN "Main Body" ELSE @]
    /\ FairyKissUnchanged

\* Lines 74-85 (and 88 after the last row): one turn of the inner loop of the main body.
FairyKissMainRow ==
    /\ fk.pc = "main"
    /\ LET step == RegularStep(fk.current_step_number, fk.current_stitch_count,
                               main_body_repeat_rows[fk.row],
                               RepeatLabel(fk.current_section, fk.i))
           lastRow == fk.row = Len(main_body_repeat_rows)
           last == lastRow /\ fk.i = MainBodyRepeats - 1
       IN  fk' = [fk EXCEPT !.output_steps_array = Append(@, step),
                            !.current_step_number = @ + 1,
                            !.row = IF lastRow THEN 1 ELSE @ + 1,
                            !.i = IF lastRow /\ ~last THEN @ + 1 ELSE @,
                            !.pc = IF last THEN "ending" ELSE @,
                            !.current_section = IF last THEN "Ending" ELSE @]
    /\ FairyKissUnchanged

\* Lines 95-105: one turn of the loop over ending_rows.
FairyKissEndingRow ==
    /\ fk.pc = "ending"
    /\ LET step == RegularStep(fk.current_step_number, fk.current_stitch_count,
                               ending_rows[fk.row], fk.current_section)
           last == fk.row = Len(ending_rows)
       IN  fk' = [fk EXCEPT !.output_steps_array = Append(@, step),
                            !.current_step_number = @ + 1,
                            !.row = IF last THEN 1 ELSE @ + 1,
                            !.pc = IF last THEN "bindoff" ELSE @]
    /\ FairyKissUnchanged

\* Lines 108-123: the bind-off record, metadata["maxSteps"], the return.
FairyKissBindOff ==
    /\ fk.pc = "bindoff"
    /\ LET steps == Append(fk.output_steps_array, BindOff(fk.current_step_number))
           metadata == PySetItem(fk.metadata, "maxSteps", JNum(fk.current_step_number)).val
       IN  fk' = [fk EXCEPT !.output_steps_array = steps,
                            !.metadata = metadata,
                            !.pc = "done",
                            !.final_output = [metadata |-> metadata, glossary |-> fk.glossary,
                                              steps |-> JList(steps)]]
    /\ FairyKissUnchanged

FairyKissRun == \E t \in PatternTexts : FairyKissCall(t)

NextFairyKiss ==
    FairyKissRun \/ FairyKissSetupRow \/ FairyKissMainRow \/ FairyKissEndingRow \/ FairyKissBindOff
SpecFairyKiss == Init /\ [][NextFairyKiss]_vars

-----------------------------------------------------------------------------
(* The pipeline over the stub of _call_gemini_api *)

\* Input texts, pattern names and author names of any kind.
AnyPatternTexts == {"dummy_text", "", "CO 100 sts. Row 1: k to end.", "{\"k\": 1}"}
AnyPatternNames == {"Fairy Kiss", "Shawl", ""}
AnyAuthorNames == {"Alina Appasova", "", "name description stitchesUsed stitchesCreated"}

StubStartRun ==
    \E t \in AnyPatternTexts, n \in AnyPatternNames, a \in AnyAuthorNames : Start(t, n, a)

\* Lines 365-372: the stub replies to the call the run awaits, whichever it is.
StubReply ==
    /\ pc \in {"pass1", "pass2", "pass3"}
    /\ IF pc = "pass1" THEN Pass1(StubResponse)
       ELSE IF pc = "pass2" THEN Pass2(StubResponse)
       ELSE Pass3(StubResponse)

NextStub == StubStartRun \/ StubReply
SpecStub == Init /\ [][NextStub]_vars

-----------------------------------------------------------------------------
(* Steps replies whose records carry some of their fields *)

\* The keys of a step of the prompt's example (lines 343-351), in its order.
ExampleStepKeys ==
    <<"step", "startingStitchCount", "endingStitchCount", "instruction", "section", "side", "type">>

\* The step record numbered `number` that carries exactly the keys of P;
\* its type is given, and it starts and ends with one stitch.
PartialStep(number, P, type) ==
    LET keys == SelectSeq(ExampleStepKeys, LAMBDA k : k \in P)
    IN  JObj(keys, [i \in 1..Len(keys) |->
                      CASE keys[i] = "step" -> JNum(number)
                        [] keys[i] = "startingStitchCount" -> JNum(1)
                        [] keys[i] = "endingStitchCount" -> JNum(1)
                        [] keys[i] = "instruction" -> JStr("k to end")
                        [] keys[i] = "section" -> JStr("setup")
                        [] keys[i] = "side" -> JStr("RS")
                        [] keys[i] = "type" -> JStr(type)])

\* The kinds of element: a record with all seven keys, of either type; one
\* without side, of either type; one that lacks one of the other six keys;
\* a cast-on record without stitch counts; an array of the six names.
FieldKinds ==
    {[kind |-> "record", lacks |-> L, type |-> t] :
        L \in {{}, {"side"}}, t \in {"regular", "specialInstruction"}}
    \cup {[kind |-> "record", lacks |-> {f}, type |-> "regular"] : f \in Range(ExampleStepKeys) \ {"side"}}
    \cup {[kind |-> "special"], [kind |-> "names"]}

\* The element of kind k at 0-based index i, numbered i + 1.
FieldElementAt(i, k) ==
    CASE k.kind = "record"  -> PartialStep(i + 1, Range(ExampleStepKeys) \ k.lacks, k.type)
      [] k.kind = "special" -> SpecialInstruction(JNum(i + 1))
      [] k.kind = "names"   -> NamesList(StepFields)

FieldsStepsReply ==
    /\ pc = "pass3"
    /\ \E n \in 0..MaxSteps : \E kinds \in [1..n -> FieldKinds] :
          Pass3([success |-> TRUE,
                 text |-> JsonText(JList([p \in 1..n |-> FieldElementAt(p - 1, kinds[p])]))])

\* The pipeline with steps replies whose records carry every choice of fields.
NextFields == StartRun \/ StructureReply \/ GlossaryReply \/ FieldsStepsReply
SpecFields == Init /\ [][NextFields]_vars

-----------------------------------------------------------------------------
(* The handler of POST /process-ocr (src/cloud-run-ocr/main.py)            *)
(*                                                                         *)
(* process_ocr runs in one thread from the request to the response; it is  *)
(* cut at its three calls to the outside: the text extraction (Vision or   *)
(* the PDF reader), the generation (Gemini) and the two Firestore writes.  *)
(* ocr.stages lists the stages entered, ocr.failed the stage in which an   *)
(* exception was raised, ocr.writes the documents set in Firestore.        *)

\* dict.get(key, default): an attribute of dicts only.
PyGet(x, key, default) ==
    IF x.j # "obj" THEN Raise(AttributeError("get"))
    ELSE IF key \in Range(x.keys) THEN Ok(x.vals[KeyIndex(x.keys, key)])
    ELSE Ok(default)

\* Lines 162-167: the except clause of process_ocr answers 500.
ProcessingFailed == [status |-> 500, error |-> "Processing failed"]

\* Lines 117-120: the first required field that `field not in data` finds
\* missing, "" when none is; raises when data has no `in`.
FirstMissing(data) ==
    LET RECURSIVE from(_)
        from(i) ==
            IF i > Len(required_fields) THEN Ok("")
            ELSE LET present == PyIn(required_fields[i], data)
                 IN  IF present.raised THEN present
                     ELSE IF ~present.val THEN Ok(required_fields[i])
                     ELSE from(i + 1)
    IN  from(1)

\* Lines 123-134: the five fields are read from data, and the length of
\* image_data is logged when image_data is truthy.
ExtractFields(data) ==
    LET image_data == PyGetItem(data, "imageData")
        pattern_name == PyGetItem(data, "patternName")
        author_name == PyGetItem(data, "authorName")
        user_id == PyGetItem(data, "userId")
        file_type == PyGet(data, "fileType", JNull)
    IN  IF image_data.raised THEN image_data
        ELSE IF pattern_name.raised THEN pattern_name
        ELSE IF author_name.raised THEN author_name
        ELSE IF user_id.raised THEN user_id
        ELSE IF file_type.raised THEN file_type
        ELSE IF Truthy(image_data.val) /\ image_data.val.j \in {"num", "bool"}
             THEN Raise(TypeError("object has no len()"))
        ELSE Ok([image_data |-> image_data.val, pattern_name |-> pattern_name.val,
                 author_name |-> author_name.val, user_id |-> user_id.val,
                 file_type |-> file_type.val])

\* The handler has answered: `response` after stage `stage`, which raised
\* or not.
Answered(o, response, raised) ==
    [o EXCEPT !.pc = "done", !.response = response,
              !.failed = IF raised THEN o.stages[Len(o.stages)] ELSE "none"]

\* Lines 100-134: a request arrives and is validated.  is_json is what the
\* Content-Type says; body is the text of the body.
OcrRequest(is_json, body) ==
    /\ ocr.pc = "idle"
    /\ LET o == [pc |-> "validate", stages |-> <<"validation">>, writes |-> <<>>,
                 response |-> [status |-> 0], failed |-> "none",
                 is_json |-> is_json, body |-> body]
           data == json_loads(body)
       IN  IF ~is_json
           THEN ocr' = Answered(o, [status |-> 400, error |-> "Request must be JSON"], FALSE)
           ELSE IF data.raised
           \* get_json() raises BadRequest on a body that is not JSON
           THEN ocr' = Answered(o, ProcessingFailed, TRUE)
           ELSE IF Truthy(data.val) /\ data.val.j # "obj"
           \* line 112: data.keys()
           THEN ocr' = Answered(o, ProcessingFailed, TRUE)
           ELSE LET missing == FirstMissing(data.val)
                    fields == ExtractFields(data.val)
                IN  IF missing.raised
                    THEN ocr' = Answered(o, ProcessingFailed, TRUE)
                    ELSE IF missing.val # ""
                    THEN ocr' = Answered(o, [status |-> 400, error |-> "Missing required field",
                                             field |-> missing.val], FALSE)
                    ELSE IF fields.raised
                    THEN ocr' = Answered(o, ProcessingFailed, TRUE)
                    ELSE ocr' = [pc |-> "extract", stages |-> <<"validation">>, writes |-> <<>>,
                                 response |-> [status |-> 0], failed |-> "none",
                                 is_json |-> is_json, body |-> body,
                                 fields |-> fields.val]
    /\ UNCHANGED <<pc, entry, context, result, passlog, calls, args, other, fk>>

\* Lines 139-145 and 169-199: extract_text_from_file.  base64.b64decode
\* raises on anything but a str; on a str the decoding, the PDF reader or
\* the Vision API return the text or raise, and the handler re-raises.
OcrExtract(outcome) ==
    /\ ocr.pc = "extract"
    /\ ocr.fields.image_data.j # "str" => outcome.raised
    /\ LET o == [ocr EXCEPT !.stages = Append(@, "extraction")]
       IN  IF outcome.raised
           THEN ocr' = Answered(o, ProcessingFailed, TRUE)
           ELSE ocr' = [pc |-> "generate", stages |-> o.stages, writes |-> o.writes,
                        response |-> o.response, failed |-> "none",
                        is_json |-> o.is_json, body |-> o.body, fields |-> o.fields,
                        extracted_text |-> outcome.val]
    /\ UNCHANGED <<pc, entry, context, result, passlog, calls, args, other, fk>>

\* Lines 148 and 275-338: process_text_to_pattern returns the value of
\* json.loads on the interpreter's text, or raises.
OcrGenerate(outcome) ==
    /\ ocr.pc = "generate"
    /\ LET o == [ocr EXCEPT !.stages = Append(@, "generation")]
       IN  IF outcome.raised
           THEN ocr' = Answered(o, ProcessingFailed, TRUE)
           ELSE ocr' = [pc |-> "save", stages |-> o.stages, writes |-> o.writes,
                        response |-> o.response, failed |-> "none",
                        is_json |-> o.is_json, body |-> o.body, fields |-> o.fields,
                        extracted_text |-> o.extracted_text,
                        pattern_data |-> outcome.val]
    /\ UNCHANGED <<pc, entry, context, result, passlog, calls, args, other, fk>>

\* Lines 348-366: enhanced_pattern.  {**pattern_data, ...} and
\* {**metadata, ...} need mappings, and the tags are added to a list.
EnhancedPattern(pattern_data, pattern_id, user_id) ==
    LET metadata == PyGet(pattern_data, "metadata", EmptyDict)
        tags == IF metadata.raised THEN metadata ELSE PyGet(metadata.val, "tags", EmptyList)
        allTags == IF tags.raised THEN tags
                   ELSE IF tags.val.j # "list"
                   THEN Raise(TypeError("unsupported operand type(s) for +"))
                   ELSE Ok(JList(tags.val.items \o <<JStr("uploaded"), JStr("ocr")>>))
    IN  IF pattern_data.j # "obj" THEN Raise(TypeError("object is not a mapping"))
        ELSE IF metadata.raised THEN metadata
        ELSE IF metadata.val.j # "obj" THEN Raise(TypeError("object is not a mapping"))
        ELSE IF allTags.raised THEN allTags
        ELSE Ok([pattern |-> pattern_data, id |-> pattern_id, createdBy |-> user_id,
                 source |-> "ocr_upload",
                 metadata |-> PySetItem(metadata.val, "source", JStr("ocr_upload")).val,
                 tags |-> allTags.val])

\* Lines 152 and 340-369: save_pattern_to_firestore draws the pattern id,
\* builds enhanced_pattern and sets it in the collection patterns; written
\* says whether Firestore took the document or raised.
OcrSavePattern(pattern_id, written) ==
    /\ ocr.pc = "save"
    /\ LET o == [ocr EXCEPT !.stages = Append(@, "persistence")]
           enhanced == EnhancedPattern(o.pattern_data, pattern_id, o.fields.user_id)
       IN  IF enhanced.raised \/ ~written
           THEN ocr' = Answered(o, ProcessingFailed, TRUE)
           ELSE ocr' = [pc |-> "access", stages |-> o.stages,
                        writes |-> <<[collection |-> "patterns", document |-> enhanced.val]>>,
                        response |-> o.response, failed |-> "none",
                        is_json |-> o.is_json, body |-> o.body, fields |-> o.fields,
                        extracted_text |-> o.extracted_text,
                        pattern_data |-> o.pattern_data, pattern_id |-> pattern_id]
    /\ UNCHANGED <<pc, entry, context, result, passlog, calls, args, other, fk>>

\* Lines 371-386 and 153-160: the access record is set in the collection
\* pattern_access, the id is returned and the handler answers 200.
OcrGrantAccess(written) ==
    /\ ocr.pc = "access"
    /\ IF ~written
       THEN ocr' = Answered(ocr, ProcessingFailed, TRUE)
       ELSE ocr' = Answered([ocr EXCEPT !.writes = Append(@,
                                [collection |-> "pattern_access",
                                 document |-> [patternId |-> ocr.pattern_id,
                                               userId |-> ocr.fields.user_id,
                                               grantedBy |-> ocr.fields.user_id,
                                               permission |-> "admin"]])],
                            [status |-> 200, success |-> TRUE, patternId |-> ocr.pattern_id],
                            FALSE)
    /\ UNCHANGED <<pc, entry, context, result, passlog, calls, args, other, fk>>

\* The bodies of the requests: the required fields of R with string values,
\* imageData with the value image, and fileType when given.
RequestObject(R, image, file_type) ==
    LET keys == SelectSeq(required_fields, LAMBDA k : k \in R)
                  \o (IF file_type = "absent" THEN <<>> ELSE <<"fileType">>)
    IN  JObj(keys, [i \in 1..Len(keys) |->
                      CASE keys[i] = "imageData" -> image
                        [] keys[i] = "patternName" -> JStr("Fairy Kiss")
                        [] keys[i] = "authorName" -> JStr("Alina Appasova")
                        [] keys[i] = "userId" -> JStr("user-1")
                        [] keys[i] = "fileType" -> IF file_type = "null" THEN JNull
                                                   ELSE JStr(file_type)])

RequestBodies ==
    {InvalidText}
    \cup {JsonText(v) : v \in {JNull, JNum(5), JNum(0), EmptyList, EmptyDict, JStr(""),
                               JStr(AllRequiredNames), NamesList(required_fields),
                               JList(<<JNum(1)>>)}}
    \cup {JsonText(RequestObject(R, image, t)) :
             R \in SUBSET Range(required_fields),
             image \in {JStr("aGVsbG8="), JStr(""), JNull, JNum(5)},
             t \in {"absent", "null", "application/pdf"}}

\* What process_text_to_pattern can return: any JSON value.
PatternDatas ==
    {JNull, JNum(5), EmptyList, EmptyDict, JStr(AllRequiredNames),
     JObj(<<"steps">>, <<EmptyList>>),
     JObj(<<"metadata">>, <<JNull>>),
     JObj(<<"metadata">>, <<EmptyDict>>),
     JObj(<<"metadata">>, <<JObj(<<"tags">>, <<JList(<<JStr("lace")>>)>>)>>),
     JObj(<<"metadata">>, <<JObj(<<"tags">>, <<JStr("lace")>>)>>),
     JObj(<<"metadata">>, <<JObj(<<"tags">>, <<JNull>>)>>)}

OcrArrives == \E is_json \in BOOLEAN, body \in RequestBodies : OcrRequest(is_json, body)
OcrExtracts ==
    \E outcome \in {Ok("CO 100 sts. Row 1: k to end."), Ok(""), Raise("File processing error")} :
        OcrExtract(outcome)
OcrGenerates ==
    \E outcome \in {Ok(v) : v \in PatternDatas} \cup {Raise("Gemini API error")} :
        OcrGenerate(outcome)
OcrSaves ==
    \E pattern_id \in {"ocr-pattern-1", "ocr-pattern-2"}, written \in BOOLEAN :
        OcrSavePattern(pattern_id, written)
OcrGrants == \E written \in BOOLEAN : OcrGrantAccess(written)

NextOcr == OcrArrives \/ OcrExtracts \/ OcrGenerates \/ OcrSaves \/ OcrGrants
SpecOcr == Init /\ [][NextOcr]_vars

-----------------------------------------------------------------------------
(* Vocabulary of the properties *)

IsPipelineRun == entry = "process_pattern_iteratively"
Returned == pc = "done"
ReturnedSuccess == Returned /\ "success" \in DOMAIN result /\ result.success
ReturnedFailure == Returned /\ ~ReturnedSuccess

\* The step records of the returned document.
DocSteps == result.data.steps.items

Has(x, key) == ~PyGetItem(x, key).raised
Field(x, key) == PyGetItem(x, key).val

\* The last pass executed, and whether pass 4 was executed.
LastPass == passlog[Len(passlog)]
Pass4Ran == Len(passlog) > 0 /\ LastPass.pass = "pass_4_validation_assembly"

\* The reply a pass of the run received (pass is 1, 2 or 3) and its parsed JSON.
HasJsonReply(n) ==
    /\ IsPipelineRun
    /\ Len(passlog) >= n
    /\ "text" \in DOMAIN passlog[n].response
    /\ GetSuccess(passlog[n].response)
    /\ ~passlog[n].response.text.garbage
ReplyJson(n) == passlog[n].response.text.json

\* Step records that carry their number and both counts.
CarriesCounts(items) ==
    \A i \in 1..Len(items) :
        /\ items[i].j = "obj"
        /\ Has(items[i], "step")
        /\ Has(items[i], "startingStitchCount")
        /\ Has(items[i], "endingStitchCount")

\* The counts of the adjacent records i and i+1 (1-based) disagree.
Mismatch(items, i) ==
    ~PyEq(Field(items[i], "endingStitchCount"), Field(items[i + 1], "startingStitchCount"))

-----------------------------------------------------------------------------
(* C1 *)

\* C1: in every document returned with success=true, by the pipeline or by
\* pass 4 called directly, every adjacent pair of step records agrees:
\* steps[i].endingStitchCount == steps[i+1].startingStitchCount (Python ==).
ContinuityInvariant ==
    ReturnedSuccess =>
        \A i \in 1..(Len(DocSteps) - 1) :
            /\ Has(DocSteps[i], "endingStitchCount")
            /\ Has(DocSteps[i + 1], "startingStitchCount")
            /\ ~Mismatch(DocSteps, i)

\* A pipeline run returned a document of three records whose counts change along the way.
ContinuityWitness ==
    /\ ReturnedSuccess
    /\ IsPipelineRun
    /\ Len(DocSteps) >= 3
    /\ Field(DocSteps[1], "startingStitchCount") # Field(DocSteps[3], "endingStitchCount")

-----------------------------------------------------------------------------
(* C2 *)

\* The 1-based indices of the elements of a steps array that do not carry the number i.
Misnumbered(items) ==
    {i \in 1..Len(items) : ~(Has(items[i], "step") /\ PyEq(Field(items[i], "step"), JNum(i)))}

\* C2: in every document the pipeline returns with success=true,
\* steps[i].step == i + 1 for every 0-based index i (Python ==); and a steps
\* reply with any other numbering is stopped in pass 3: pass 4 is not run on it
\* and the run fails.
SequentialNumbering ==
    /\ (ReturnedSuccess /\ IsPipelineRun) => Misnumbered(DocSteps) = {}
    /\ (Returned /\ HasJsonReply(3) /\ ReplyJson(3).j = "list" /\ Misnumbered(ReplyJson(3).items) # {})
          => /\ ~Pass4Ran
             /\ ReturnedFailure
             /\ context.steps = JNull

\* A pipeline run returned a document of three records numbered 1, 2, 3.
NumberingWitness ==
    /\ ReturnedSuccess /\ IsPipelineRun
    /\ Len(DocSteps) = 3
    /\ Field(DocSteps[3], "step") = JNum(3)

-----------------------------------------------------------------------------
(* C6 *)

\* The least 1-based index of a mismatching adjacent pair.
FirstMismatch(items) ==
    CHOOSE i \in 1..(Len(items) - 1) :
        /\ Mismatch(items, i)
        /\ \A k \in 1..(i - 1) : ~Mismatch(items, k)

\* C6: when pass 4 runs on step records (each carrying its number and both
\* counts) of which one or more adjacent pairs disagree, it fails with step
\* "validation" and the error names the two step numbers of the first
\* disagreeing pair and that pair's ending and starting count.
FirstViolationReported ==
    (/\ Returned /\ Pass4Ran
     /\ context.steps.j = "list"
     /\ CarriesCounts(context.steps.items)
     /\ \E i \in 1..(Len(context.steps.items) - 1) : Mismatch(context.steps.items, i))
    => LET items == context.steps.items
           i == FirstMismatch(items)
       IN  /\ result.success = FALSE
           /\ result.step = "validation"
           /\ result.error.msg = "Validation failed"
           /\ result.error.detail.msg = "Stitch count mismatch between steps"
           /\ result.error.detail.stepA = Field(items[i], "step")
           /\ result.error.detail.stepB = Field(items[i + 1], "step")
           /\ result.error.detail.ending = Field(items[i], "endingStitchCount")
           /\ result.error.detail.starting = Field(items[i + 1], "startingStitchCount")

\* Pass 4 of a pipeline run met two disagreeing pairs with different counts.
FirstViolationWitness ==
    /\ Returned /\ Pass4Ran /\ IsPipelineRun
    /\ Len(context.steps.items) = 3
    /\ Mismatch(context.steps.items, 1)
    /\ Mismatch(context.steps.items, 2)
    /\ Field(context.steps.items[1], "endingStitchCount") # Field(context.steps.items[2], "endingStitchCount")

-----------------------------------------------------------------------------
(* C3 *)

PassOrder ==
    <<"pass_1_structure_analysis", "pass_2_glossary_building",
      "pass_3_section_processing", "pass_4_validation_assembly">>

\* A pass reported success=true.
PassSucceeded(ret) == "success" \in DOMAIN ret /\ ret.success

\* C3: in a pipeline run the passes execute in the fixed order, each at most
\* once; a pass starts only if every earlier pass reported success=true; once
\* a pass reports anything else the run is over, no later pass has executed
\* and no later interpreter call was made.
OrderedFailFast ==
    IsPipelineRun =>
        /\ Len(passlog) <= Len(PassOrder)
        /\ \A k \in 1..Len(passlog) : passlog[k].pass = PassOrder[k]
        /\ \A k \in 1..(Len(passlog) - 1) : PassSucceeded(passlog[k].ret)
        /\ (\E k \in 1..Len(passlog) : ~PassSucceeded(passlog[k].ret)) => pc = "done"
        /\ calls = IF pc \in {"pass1", "pass2", "pass3"} THEN Len(passlog) + 1
                   ELSE IF Len(passlog) = Len(PassOrder) THEN 3
                   ELSE Len(passlog)

\* Pass 1 succeeded, pass 2 failed, and the run ended after two interpreter calls.
OrderedFailFastWitness ==
    /\ IsPipelineRun /\ Returned
    /\ Len(passlog) = 2
    /\ PassSucceeded(passlog[1].ret)
    /\ ~PassSucceeded(passlog[2].ret)
    /\ calls = 2

-----------------------------------------------------------------------------
(* C4 *)

\* The step tags that name a pass.
StepTags(pass) ==
    CASE pass = "pass_1_structure_analysis" -> {"structure_analysis"}
      [] pass = "pass_2_glossary_building" -> {"glossary_building"}
      [] pass = "pass_3_section_processing" -> {"section_processing"}
      [] pass = "pass_4_validation_assembly" -> {"validation", "validation_assembly"}

\* C4: every failure process_pattern_iteratively returns has the keys
\* success (false), error and step, and step names the pass the failure
\* originated in, whatever the cause.
FailuresTagged ==
    (IsPipelineRun /\ ReturnedFailure) =>
        /\ {"success", "error", "step"} \subseteq DOMAIN result
        /\ result.success = FALSE
        /\ result.step \in StepTags(LastPass.pass)

-----------------------------------------------------------------------------
(* C5 *)

\* Some record of a steps list lacks a stitch count.
LacksCounts(steps) ==
    /\ steps.j = "list"
    /\ \E i \in 1..Len(steps.items) :
          ~Has(steps.items[i], "startingStitchCount") \/ ~Has(steps.items[i], "endingStitchCount")

\* C5: every pass returns a result that carries a success flag, and so does
\* the entry point; pass 4 applied to steps that lack startingStitchCount or
\* endingStitchCount returns a tagged failure.
PassesReturnFlaggedResults ==
    /\ \A k \in 1..Len(passlog) : "success" \in DOMAIN passlog[k].ret
    /\ Returned => "success" \in DOMAIN result
    /\ (Returned /\ Pass4Ran /\ LacksCounts(context.steps)) =>
          /\ {"success", "error", "step"} \subseteq DOMAIN LastPass.ret
          /\ LastPass.ret.success = FALSE

-----------------------------------------------------------------------------
(* C7 *)

\* A glossary entry that lacks a required field or whose counts are not JSON numbers.
Offending(stitch) ==
    \/ stitch.j # "obj"
    \/ \E f \in Range(GlossaryFields) : ~Has(stitch, f)
    \/ Field(stitch, "stitchesUsed").j # "num"
    \/ Field(stitch, "stitchesCreated").j # "num"

OffendingAbbrevs(glossary) ==
    {glossary.keys[n] : n \in {m \in 1..Len(glossary.keys) : Offending(glossary.vals[m])}}

\* C7: when an entry of the glossary reply is offending, pass 2 fails with
\* an error that names an offending abbreviation, context.glossary stays
\* unset and the run returns no document.
GlossaryAllOrNothing ==
    (HasJsonReply(2) /\ ReplyJson(2).j = "obj" /\ OffendingAbbrevs(ReplyJson(2)) # {}) =>
        /\ ~PassSucceeded(passlog[2].ret)
        /\ "abbrev" \in DOMAIN passlog[2].ret.error
        /\ passlog[2].ret.error.abbrev \in OffendingAbbrevs(ReplyJson(2))
        /\ context.glossary = JNull
        /\ ~ReturnedSuccess

-----------------------------------------------------------------------------
(* C8 *)

\* The numeric counts of the entries of a glossary.
NumericCounts(glossary) ==
    {c \in UNION { {Field(glossary.vals[n], "stitchesUsed"), Field(glossary.vals[n], "stitchesCreated")}
                   : n \in 1..Len(glossary.keys) } : c.j = "num"}

\* C8: no glossary entry with a negative stitchesUsed or stitchesCreated
\* is ever in context.glossary or in a returned document.
GlossaryCountsNonNegative ==
    /\ (IsPipelineRun /\ context.glossary.j = "obj") =>
          \A c \in NumericCounts(context.glossary) : c.v >= 0
    /\ (IsPipelineRun /\ ReturnedSuccess) =>
          \A c \in NumericCounts(result.data.glossary) : c.v >= 0

-----------------------------------------------------------------------------
(* C9 *)

\* C9: when the structure reply is a JSON object, pass 1 succeeds; each of
\* the five fields the reply lacks is an empty list in the result, every key
\* the reply carries keeps its value, no other key appears, and the result
\* is what the pipeline stores in context.structure.
StructureDefaults ==
    (HasJsonReply(1) /\ ReplyJson(1).j = "obj") =>
        LET reply == ReplyJson(1)
            ret == passlog[1].ret
        IN  /\ PassSucceeded(ret)
            /\ ret.step = "structure_analysis"
            /\ ret.data.j = "obj"
            /\ Range(ret.data.keys) = Range(reply.keys) \cup Range(StructureFields)
            /\ \A f \in Range(StructureFields) \ Range(reply.keys) : Field(ret.data, f) = EmptyList
            /\ \A k \in Range(reply.keys) : Field(ret.data, k) = Field(reply, k)
            /\ context.structure = ret.data

\* Pass 1 got an object that carries sections and specialInstructions and lacks variables.
StructureDefaultsWitness ==
    /\ HasJsonReply(1) /\ ReplyJson(1).j = "obj"
    /\ Has(ReplyJson(1), "sections")
    /\ Has(ReplyJson(1), "specialInstructions")
    /\ ~Has(ReplyJson(1), "variables")
    /\ pc = "pass2"

-----------------------------------------------------------------------------
(* C10 *)

\* C10: a structure reply that is not JSON, or is JSON but not an object,
\* makes pass 1 fail with step "structure_analysis", and context.structure
\* stays unset.
MalformedStructureFails ==
    (/\ IsPipelineRun /\ Len(passlog) >= 1
     /\ GetSuccess(passlog[1].response) /\ "text" \in DOMAIN passlog[1].response
     /\ (passlog[1].response.text.garbage \/ passlog[1].response.text.json.j # "obj"))
    => /\ ~PassSucceeded(passlog[1].ret)
       /\ passlog[1].ret.step = "structure_analysis"
       /\ context.structure = JNull

-----------------------------------------------------------------------------
(* C11 *)

\* What pass 4 takes for a context field that may be unset: `x or default`.
OrDefault(x, default) == IF x = JNull THEN default ELSE x

\* C11: whenever pass 4 succeeds, metadata.maxSteps of the document is the
\* number of its step records; in a pipeline run the document's glossary is
\* the glossary pass 2 returned and its steps are the array pass 3 returned
\* (the array of the steps reply), record for record; in a direct call they
\* are the glossary and the steps of the context handed in.
AssemblyFaithful ==
    /\ ReturnedSuccess =>
          Field(result.data.metadata, "maxSteps") = JNum(Len(DocSteps))
    /\ (ReturnedSuccess /\ IsPipelineRun) =>
          /\ result.data.glossary = passlog[2].ret.data
          /\ result.data.glossary = ReplyJson(2)
          /\ result.data.steps = passlog[3].ret.data
          /\ result.data.steps = ReplyJson(3)
    /\ (ReturnedSuccess /\ ~IsPipelineRun) =>
          /\ result.data.glossary = OrDefault(args.context.glossary, EmptyDict)
          /\ result.data.steps = OrDefault(args.context.steps, EmptyList)

\* A pipeline run assembled a document of two glossary entries and three
\* step records whose counts differ from record to record.
AssemblyWitness ==
    /\ ReturnedSuccess /\ IsPipelineRun
    /\ Len(result.data.glossary.keys) = 2
    /\ Len(DocSteps) = 3
    /\ Field(result.data.metadata, "maxSteps") = JNum(3)
    /\ Field(DocSteps[2], "endingStitchCount") # Field(DocSteps[2], "startingStitchCount")

-----------------------------------------------------------------------------
(* C12 *)

\* The result of pass 4 on no steps: success, steps = [], metadata.maxSteps = 0.
EmptyDocumentReturned ==
    /\ ReturnedSuccess
    /\ Pass4Ran /\ PassSucceeded(LastPass.ret)
    /\ result.step = "validation_assembly"
    /\ result.data.steps = EmptyList
    /\ Field(result.data.metadata, "maxSteps") = JNum(0)

\* C12: when the steps reply of a pipeline run is the empty array, or pass 4
\* is called on a context whose steps are unset or empty, validation reports
\* valid and the caller gets success with steps = [] and metadata.maxSteps = 0.
EmptyStepsAccepted ==
    /\ (Returned /\ HasJsonReply(3) /\ ReplyJson(3) = EmptyList) => EmptyDocumentReturned
    /\ (Returned /\ ~IsPipelineRun /\ args.context.steps \in {JNull, EmptyList}) => EmptyDocumentReturned

\* A pipeline run whose steps reply was the empty array has returned.
EmptyStepsWitness ==
    /\ Returned /\ HasJsonReply(3) /\ ReplyJson(3) = EmptyList
    /\ context.steps = EmptyList
    /\ Len(result.data.glossary.keys) = 2

-----------------------------------------------------------------------------
(* C13 *)

\* The metadata m carries exactly the keys of `before` and maxSteps, and
\* every key of `before` other than maxSteps keeps its value.
ExtendsMetadata(m, before) ==
    /\ m.j = "obj"
    /\ Range(m.keys) = Range(before.keys) \cup {"maxSteps"}
    /\ \A k \in Range(before.keys) \ {"maxSteps"} : Field(m, k) = Field(before, k)

\* C13: at every point of a pipeline run context.metadata is the metadata
\* set at entry (name = pattern_name, author = author_name, craft =
\* "knitting", no other key) and context.original_text is the text handed in;
\* the metadata of a successful document carries these three values and the
\* one added key maxSteps.  Pass 4 called directly leaves the metadata and
\* the text of its context as they were and extends the metadata the same way.
MetadataOnlyExtended ==
    /\ IsPipelineRun =>
          /\ context.metadata.keys = <<"name", "author", "craft">>
          /\ context.metadata.vals = <<JStr(args.pattern_name), JStr(args.author_name), JStr("knitting")>>
          /\ context.original_text = args.pattern_text
    /\ (IsPipelineRun /\ ReturnedSuccess) =>
          /\ ExtendsMetadata(result.data.metadata, context.metadata)
          /\ Field(result.data.metadata, "name") = JStr(args.pattern_name)
          /\ Field(result.data.metadata, "author") = JStr(args.author_name)
          /\ Field(result.data.metadata, "craft") = JStr("knitting")
    /\ (Returned /\ ~IsPipelineRun) =>
          /\ context.metadata = args.context.metadata
          /\ context.original_text = args.context.original_text
          /\ ReturnedSuccess => ExtendsMetadata(result.data.metadata, args.context.metadata)

\* A pipeline run called for the pattern "Shawl" returned a document of two steps.
MetadataWitness ==
    /\ IsPipelineRun /\ ReturnedSuccess
    /\ args.pattern_name = "Shawl"
    /\ Field(result.data.metadata, "maxSteps") = JNum(2)

-----------------------------------------------------------------------------
(* C14 *)

\* The value the n-th pass of the run produced: the data it returned with
\* success=true, None when it has not run or did not succeed.
Produced(n) ==
    IF Len(passlog) >= n /\ PassSucceeded(passlog[n].ret) THEN passlog[n].ret.data ELSE JNull

\* C14: at every point of a pipeline run, context.structure, context.glossary
\* and context.steps each hold what pass 1, 2 and 3 returned with success=true
\* and are unset otherwise: a field is assigned only after its pass succeeded,
\* a failed pass or interpreter call leaves its field unset, and no later pass
\* changes a field an earlier pass set.  A successful pass never returns None.
ContextSetOnlyOnSuccess ==
    IsPipelineRun =>
        /\ context.structure = Produced(1)
        /\ context.glossary = Produced(2)
        /\ context.steps = Produced(3)
        /\ \A n \in 1..Len(passlog) : PassSucceeded(passlog[n].ret) => passlog[n].ret.data # JNull

\* Passes 1 and 2 succeeded and pass 3 failed: structure and glossary are set, steps are not.
ContextWitness ==
    /\ IsPipelineRun /\ Returned
    /\ Len(passlog) = 3
    /\ ~PassSucceeded(passlog[3].ret)
    /\ context.structure # JNull
    /\ context.glossary # JNull
    /\ context.steps = JNull

-----------------------------------------------------------------------------
(* C15 *)

\* A run alone: started with the arguments a and resumed with the replies in turn.
RECURSIVE RunAlone(_, _, _)
RunAlone(run, replies, i) ==
    IF i > Len(replies) THEN run ELSE RunAlone(Resume(run, replies[i]), replies, i + 1)

\* The replies the first run has received so far (pass 4 receives none).
RepliesReceived ==
    [k \in 1..(IF Len(passlog) > 3 THEN 3 ELSE Len(passlog)) |-> passlog[k].response]

\* C15: with two runs of process_pattern_iteratively interleaved at their
\* interpreter calls in every order, each run stands where it would stand
\* when run alone with the same arguments and the same replies: the same
\* position, the same ProcessingContext and, once it returned, the same result.
RunsIndependent ==
    /\ IsPipelineRun =>
          LET alone == RunAlone(StartedRun(args), RepliesReceived, 1)
          IN  /\ pc = alone.pc
              /\ context = alone.context
              /\ result = alone.result
    /\ other.pc # "idle" =>
          LET alone == RunAlone(StartedRun(other.args), other.replies, 1)
          IN  /\ other.pc = alone.pc
              /\ other.context = alone.context
              /\ other.result = alone.result

\* The second run was called while the first awaited the reply to pass 2,
\* for another pattern name, and both runs returned a document, each under its own name.
RunsIndependentWitness ==
    /\ IsPipelineRun /\ ReturnedSuccess
    /\ other.pc = "done" /\ other.began = "pass2"
    /\ PassSucceeded(other.result)
    /\ other.args.pattern_name # args.pattern_name
    /\ Field(other.result.data.metadata, "name") # Field(result.data.metadata, "name")

-----------------------------------------------------------------------------
(* C16 *)

\* The stitch tokens of an instruction, in order ("k1" is the token k once).
InstructionTokens(instruction) ==
    CASE instruction = "k1, kfb, k1" -> <<"k", "kfb", "k">>
      [] instruction = "k1, yo, k1"  -> <<"k", "yo", "k">>
      [] instruction = "k to end"    -> <<"k">>
      [] OTHER -> <<>>

\* The instruction consists of literal tokens only (no "to end", no repeat).
LiteralOnly(instruction) == instruction \in {"k1, kfb, k1", "k1, yo, k1"}

\* stitchesCreated - stitchesUsed of the glossary entry of a token.
Delta(glossary, token) ==
    Field(Field(glossary, token), "stitchesCreated").v - Field(Field(glossary, token), "stitchesUsed").v

\* The sum of the deltas of the tokens from the i-th on.
RECURSIVE SumDelta(_, _, _)
SumDelta(glossary, tokens, i) ==
    IF i > Len(tokens) THEN 0
    ELSE Delta(glossary, tokens[i]) + SumDelta(glossary, tokens, i + 1)

\* C16: for every step of a document the pipeline returns with success=true
\* whose instruction consists of literal tokens only, all of them in the
\* glossary, endingStitchCount - startingStitchCount equals the sum over the
\* tokens of stitchesCreated - stitchesUsed; a steps reply whose counts
\* disagree with this arithmetic is not accepted.
ArithmeticRederived ==
    (IsPipelineRun /\ ReturnedSuccess) =>
        \A i \in 1..Len(DocSteps) :
            LET row == DocSteps[i]
                tokens == InstructionTokens(Field(row, "instruction").s)
            IN  (/\ LiteralOnly(Field(row, "instruction").s)
                 /\ Range(tokens) \subseteq Range(result.data.glossary.keys))
                => Field(row, "endingStitchCount").v - Field(row, "startingStitchCount").v
                      = SumDelta(result.data.glossary, tokens, 1)

-----------------------------------------------------------------------------
(* C17 *)

\* C17: in every document the pipeline returns with success=true, every
\* stitch token of every step's instruction has an entry in the document's
\* glossary.
GlossaryComplete ==
    (IsPipelineRun /\ ReturnedSuccess) =>
        \A i \in 1..Len(DocSteps) :
            Range(InstructionTokens(Field(DocSteps[i], "instruction").s))
                \subseteq Range(result.data.glossary.keys)

-----------------------------------------------------------------------------
(* C18 *)

FairyKissReturned == fk.pc = "done"

\* The step records of the document parse_fairy_kiss_pattern returned.
FairyKissSteps == fk.final_output.steps.items

\* The 1-based positions of the records whose section reads "Main Body - Repeat j" for some j.
RepeatPositions ==
    {p \in 1..Len(FairyKissSteps) :
        \E j \in 0..(MainBodyRepeats + 1) :
            Field(FairyKissSteps[p], "section") = JStr("Main Body - Repeat " \o ToString(j))}

\* C18: the 4-row template repeated 112 times yields exactly 4 * 112
\* consecutive records, right after the cast-on and the setup rows; the rows
\* of the j-th emission are the template's rows in order, under the section
\* "Main Body - Repeat j", j = 1..112; and every emitted row starts and ends
\* with the stitch count the last row before the repeat ended with.
RowRepeatExpansion ==
    FairyKissReturned =>
        LET n == Len(main_body_repeat_rows)
            before == 1 + Len(setup_rows)
            count == Field(FairyKissSteps[before], "endingStitchCount")
        IN  /\ RepeatPositions = (before + 1)..(before + n * MainBodyRepeats)
            /\ Cardinality(RepeatPositions) = n * MainBodyRepeats
            /\ \A j \in 1..MainBodyRepeats : \A r \in 1..n :
                  LET row == FairyKissSteps[before + (j - 1) * n + r]
                  IN  /\ Field(row, "section") = JStr("Main Body - Repeat " \o ToString(j))
                      /\ Field(row, "instruction") = JStr(main_body_repeat_rows[r].inst)
                      /\ Field(row, "side") = JStr(main_body_repeat_rows[r].side)
                      /\ Field(row, "startingStitchCount") = count
                      /\ Field(row, "endingStitchCount") = count
            /\ count = JNum(CastOnStitches)

\* The function returned, and the last row of the last emission is Row 4 of repeat 112.
RowRepeatWitness ==
    /\ FairyKissReturned
    /\ Len(FairyKissSteps) > Len(main_body_repeat_rows) * MainBodyRepeats
    /\ \E p \in 1..Len(FairyKissSteps) :
          /\ Field(FairyKissSteps[p], "section") = JStr("Main Body - Repeat 112")
          /\ Field(FairyKissSteps[p], "instruction") = JStr(main_body_repeat_rows[4].inst)
          /\ Field(FairyKissSteps[p + 1], "section") = JStr("Ending")

-----------------------------------------------------------------------------
(* C19 *)

\* C19: in the document parse_fairy_kiss_pattern returns, every record's
\* step is a positive integer and steps[i].step == i + 1 for every 0-based
\* index i, the special-instruction records included.
FairyKissNumbering ==
    FairyKissReturned =>
        \A p \in 1..Len(FairyKissSteps) :
            /\ Has(FairyKissSteps[p], "step")
            /\ Field(FairyKissSteps[p], "step").v > 0
            /\ Field(FairyKissSteps[p], "step") = JNum(p)

-----------------------------------------------------------------------------
(* C20 *)

\* C20: in the document parse_fairy_kiss_pattern returns, metadata.maxSteps
\* is the number of records of the steps sequence.
FairyKissMaxSteps ==
    FairyKissReturned =>
        Field(fk.final_output.metadata, "maxSteps") = JNum(Len(FairyKissSteps))

-----------------------------------------------------------------------------
(* C21 *)

\* The records parse_fairy_kiss_pattern has emitted so far.
Emitted == IF fk.pc = "idle" THEN <<>> ELSE fk.output_steps_array

IsRegular(row) == Field(row, "type") = JStr("regular")

\* The regular records among them, in order: special-instruction records
\* are left out, so that they neither take a side nor advance the alternation.
RegularEmitted == SelectSeq(Emitted, IsRegular)

\* C21: at every point of parse_fairy_kiss_pattern, every regular record
\* emitted so far has the side RS or WS, every two consecutive regular
\* records have opposite sides, whatever their sections and repeats, and
\* the records that are not regular (cast-on, bind-off) carry no side.
SidesAlternate ==
    LET rows == RegularEmitted
    IN  /\ \A p \in 1..Len(Emitted) :
              IF IsRegular(Emitted[p])
              THEN Has(Emitted[p], "side") /\ Field(Emitted[p], "side") \in {JStr("RS"), JStr("WS")}
              ELSE ~Has(Emitted[p], "side")
        /\ \A k \in 1..(Len(rows) - 1) : Field(rows[k], "side") # Field(rows[k + 1], "side")

\* The function returned; a setup row is followed by a row of repeat 1, a row
\* of repeat 1 by a row of repeat 2, and a row of repeat 112 by an ending row.
SidesAlternateWitness ==
    /\ fk.pc = "done"
    /\ \E p \in 1..(Len(Emitted) - 1) :
          /\ Field(Emitted[p], "section") = JStr("Setup")
          /\ Field(Emitted[p + 1], "section") = JStr("Main Body - Repeat 1")
    /\ \E p \in 1..(Len(Emitted) - 1) :
          /\ Field(Emitted[p], "section") = JStr("Main Body - Repeat 1")
          /\ Field(Emitted[p + 1], "section") = JStr("Main Body - Repeat 2")
    /\ \E p \in 1..(Len(Emitted) - 1) :
          /\ Field(Emitted[p], "section") = JStr("Main Body - Repeat 112")
          /\ Field(Emitted[p + 1], "section") = JStr("Ending")
    /\ ~IsRegular(Emitted[1]) /\ ~IsRegular(Emitted[Len(Emitted)])

-----------------------------------------------------------------------------
(* C22 *)

\* C22: with the stub as the Text Interpreter, every run of
\* process_pattern_iteratively succeeds in pass 1 and fails in pass 2: once
\* it returned, exactly passes 1 and 2 have executed, two interpreter calls
\* were made, the result is a failure with step "glossary_building" (the
\* entry "placeholder" lacks the field name), and at no point have passes 3
\* or 4 executed, are steps or a glossary stored, or is a document returned.
StubFailsInGlossary ==
    IsPipelineRun =>
        /\ Len(passlog) <= 2
        /\ calls <= 2
        /\ pc # "pass3"
        /\ ~ReturnedSuccess
        /\ context.glossary = JNull /\ context.steps = JNull
        /\ Len(passlog) >= 1 =>
              /\ passlog[1].pass = "pass_1_structure_analysis"
              /\ PassSucceeded(passlog[1].ret)
              /\ passlog[1].ret.step = "structure_analysis"
        /\ Returned =>
              /\ Len(passlog) = 2
              /\ passlog[2].pass = "pass_2_glossary_building"
              /\ result = passlog[2].ret
              /\ result.success = FALSE
              /\ result.step = "glossary_building"
              /\ result.error.msg = "Glossary entry missing required field"
              /\ result.error.abbrev = "placeholder"
              /\ result.error.field = "name"

\* A run on the empty text, for an author whose name spells the glossary's field names, has returned.
StubWitness ==
    /\ IsPipelineRun /\ Returned
    /\ args.pattern_text = ""
    /\ args.author_name = AllGlossaryNames
    /\ calls = 2

-----------------------------------------------------------------------------
(* C23 *)

\* The six fields every step record is to carry.
SixFields == {"step", "startingStitchCount", "endingStitchCount", "instruction", "section", "type"}

\* The element is a JSON object that carries the six fields.
CarriesSixFields(element) ==
    element.j = "obj" /\ SixFields \subseteq Range(element.keys)

\* C23: every step record of a document the pipeline returns with
\* success=true carries the six fields, whatever its type; a steps reply
\* (an array) of which some record lacks one of them fails pass 3 with step
\* "section_processing", pass 4 does not run and the run returns that
\* failure; and a steps reply whose records all carry the six fields and
\* are numbered from 1 passes pass 3, with or without side.
SixFieldsRequired ==
    /\ (IsPipelineRun /\ ReturnedSuccess) =>
          \A i \in 1..Len(DocSteps) : CarriesSixFields(DocSteps[i])
    /\ (Returned /\ HasJsonReply(3) /\ ReplyJson(3).j = "list") =>
          LET items == ReplyJson(3).items
          IN  IF \E i \in 1..Len(items) : ~CarriesSixFields(items[i])
              THEN /\ ~PassSucceeded(passlog[3].ret)
                   /\ {"success", "error", "step"} \subseteq DOMAIN passlog[3].ret
                   /\ passlog[3].ret.step = "section_processing"
                   /\ ~Pass4Ran
                   /\ result = passlog[3].ret
              ELSE Misnumbered(items) = {} =>
                      /\ PassSucceeded(passlog[3].ret)
                      /\ passlog[3].ret.data = ReplyJson(3)

\* A document was returned whose first record is a special instruction with
\* all six fields, whose second record is a regular one without side and whose third has one.
FieldsWitness ==
    /\ IsPipelineRun /\ ReturnedSuccess
    /\ Len(DocSteps) = 3
    /\ Field(DocSteps[1], "type") = JStr("specialInstruction")
    /\ Field(DocSteps[2], "type") = JStr("regular")
    /\ ~Has(DocSteps[2], "side")
    /\ Has(DocSteps[3], "side")

-----------------------------------------------------------------------------
(* C24 *)

OcrStageOrder == <<"validation", "extraction", "generation", "persistence">>

\* The handler has received a request whose body is JSON.
OcrJsonRequest == ocr.pc # "idle" /\ ocr.is_json /\ ~ocr.body.garbage

\* The JSON body lacks one of the four fields: it is not an object that has
\* the four keys.
OcrMissesField ==
    LET data == ocr.body.json
    IN  ~(data.j = "obj" /\ {"imageData", "patternName", "authorName", "userId"} \subseteq Range(data.keys))

\* The stages entered so far are the first ones of the order validation,
\* extraction, generation, persistence.
OcrStagesInOrder ==
    /\ Len(ocr.stages) <= Len(OcrStageOrder)
    /\ \A i \in 1..Len(ocr.stages) : ocr.stages[i] = OcrStageOrder[i]

\* Something is written to Firestore only in the persistence stage, after
\* the extraction and the generation have returned their values.
OcrWritesAfterGeneration ==
    ocr.writes # <<>> =>
        /\ ocr.stages = OcrStageOrder
        /\ {"extracted_text", "pattern_data"} \subseteq DOMAIN ocr

\* A stage that raised is the last one entered and is answered 500; and
\* success is answered only with 200, after the four stages and both writes.
OcrFailureStops ==
    /\ ocr.failed # "none" =>
          /\ ocr.pc = "done"
          /\ ocr.response.status = 500
          /\ "success" \notin DOMAIN ocr.response
          /\ ocr.stages[Len(ocr.stages)] = ocr.failed
    /\ "success" \in DOMAIN ocr.response =>
          /\ ocr.failed = "none"
          /\ ocr.response.status = 200
          /\ ocr.stages = OcrStageOrder
          /\ Len(ocr.writes) = 2

\* A request whose JSON body lacks a required field is answered 400, with
\* the validation the only stage entered and nothing written.
OcrMissingFieldRejected ==
    (OcrJsonRequest /\ OcrMissesField) =>
        /\ ocr.pc = "done"
        /\ ocr.response.status = 400
        /\ ocr.stages = <<"validation">>
        /\ ocr.writes = <<>>

\* C24: in the handler of /process-ocr the stages run in the order
\* validation, extraction, generation, persistence; a request that lacks
\* one of imageData, patternName, authorName, userId is answered 400 before
\* any extraction, generation or Firestore write; a pattern is written only
\* after the extraction and the generation have succeeded; and a failure in
\* any stage is answered 500, with no later stage run and success=true
\* never returned.
ProcessOcrStaged ==
    /\ OcrStagesInOrder
    /\ OcrMissingFieldRejected
    /\ OcrWritesAfterGeneration
    /\ OcrFailureStops

====
